---- MODULE Spec2Model ----
(***************************************************************************)
(* A model of the RepID zk-STARK crate (zkp-circuits): the BabyBear field, *)
(* the execution trace, the prover (trace, LDE, commitments, FRI, PoW,     *)
(* queries), the verifier and the RepIDZKPSystem facade.                   *)
(*                                                                         *)
(* Number representation.  TLC's integers are 32-bit signed, so:           *)
(*   - u64 words that stay below 2^31 in every modelled run (field         *)
(*     elements, time_window, timestamps, nonces, positions, lengths) are  *)
(*     TLA+ integers;                                                      *)
(*   - u32 values whose carry out of bit 31 matters (scores, thresholds,   *)
(*     their sums) and the bytes of a challenge are little-endian byte     *)
(*     sequences, with the arithmetic done byte by byte.                   *)
(* Digests are symbolic: Blake3(input) is the pair <<"blake3", input>>, an *)
(* injective stand-in for the hash function.                               *)
(***************************************************************************)
EXTENDS Integers, Sequences, FiniteSets, TLC

VARIABLES
    zeroNonces,   \* the nonces whose PoW digest starts with two zero bytes
    clock,        \* the wall clock, seconds since the epoch
    sys,          \* the RepIDZKPSystem, or NoSystem before construction
    flight,       \* the RepIDProof held by the caller, or NoProof
    tampered,     \* whether flight was altered since it was produced
    out,          \* the outcome of the last call
    accepted,     \* whether flight, as produced, was verified and accepted
    runs,         \* proofs produced so far by freshly constructed provers
    fnArgs,       \* the arguments of a function applied on its own, or NoArgs
    fnResult      \* what the function returned, or NoResult before the call

vars == <<zeroNonces, clock, sys, flight, tampered, out, accepted, runs, fnArgs, fnResult>>

----------------------------------------------------------------------------
(* Byte-level unsigned arithmetic (little-endian byte sequences).           *)

Byte == 0..255

\* n.to_le_bytes() for an integer n held in w bytes
RECURSIVE LE(_, _)
LE(n, w) == IF w = 0 THEN <<>> ELSE <<n % 256>> \o LE(n \div 256, w - 1)

\* u64::from_le_bytes / u32::from_le_bytes when the value is below 2^31
RECURSIVE FromLE(_)
FromLE(bs) == IF bs = <<>> THEN 0 ELSE bs[1] + 256 * FromLE(Tail(bs))

\* zero-extension of a byte sequence to w bytes (u32 as u64)
ZeroExtend(bs, w) == [i \in 1..w |-> IF i <= Len(bs) THEN bs[i] ELSE 0]

\* the sum of two equally wide values: the wrapped bytes and the carry out
RECURSIVE AddCarry(_, _, _)
AddCarry(a, b, c) ==
    IF a = <<>> THEN [bytes |-> <<>>, carry |-> c]
    ELSE LET s == a[1] + b[1] + c
             r == AddCarry(Tail(a), Tail(b), s \div 256)
         IN [bytes |-> <<s % 256>> \o r.bytes, carry |-> r.carry]

\* a >= b for equally wide values (compared from the most significant byte)
RECURSIVE GeqLE(_, _)
GeqLE(a, b) ==
    IF a = <<>> THEN TRUE
    ELSE LET n == Len(a)
         IN IF a[n] # b[n] THEN a[n] > b[n]
            ELSE GeqLE(SubSeq(a, 1, n - 1), SubSeq(b, 1, n - 1))

----------------------------------------------------------------------------
(* BabyBearField                                                            *)

BABY_BEAR_MODULUS == 2013265921

\* (a + b) mod p for reduced a, b, without leaving 31 bits
AddModP(a, b) ==
    IF a >= BABY_BEAR_MODULUS - b THEN a - (BABY_BEAR_MODULUS - b) ELSE a + b

\* (a * b) mod p for reduced a, b: the 128-bit product of Mul, reduced
RECURSIVE MulModP(_, _)
MulModP(a, b) ==
    IF a = 0 \/ b = 0 THEN 0
    ELSE IF b <= 2147483647 \div a THEN (a * b) % BABY_BEAR_MODULUS
    ELSE LET h == MulModP(AddModP(a, a), b \div 2)
         IN IF b % 2 = 1 THEN AddModP(h, a) ELSE h

\* BabyBearField::new on a u64 below 2^31
FieldNew(value) == value % BABY_BEAR_MODULUS

\* BabyBearField::new on a u64 given by its little-endian bytes
RECURSIVE FieldNewLE(_)
FieldNewLE(bs) ==
    IF bs = <<>> THEN 0
    ELSE AddModP(MulModP(FieldNewLE(Tail(bs)), 256), bs[1])

\* BabyBearField::from_u32 on a u32 given by its four bytes
FromU32(v) == FieldNewLE(ZeroExtend(v, 8))

FieldZERO == 0
FieldONE == 1

\* impl Mul for BabyBearField
FieldMul(a, b) == FieldNew(MulModP(a, b))

\* BabyBearField::to_bytes
ToBytes(x) == LE(x, 8)

\* !x on a u64 given by its bytes
Complement(bs) == [i \in 1..Len(bs) |-> 255 - bs[i]]

\* u64::wrapping_add and u64::wrapping_sub on little-endian bytes
WrappingAdd(a, b) == AddCarry(a, b, 0).bytes
WrappingSub(a, b) == AddCarry(a, Complement(b), 1).bytes

\* impl Add for BabyBearField
FieldAdd(a, b) == FieldNewLE(WrappingAdd(LE(a, 8), LE(b, 8)))

\* a variant of Sub that leaves out wrapping_add(MODULUS)
FieldSub_NoModulus(a, b) == FieldNewLE(WrappingSub(LE(a, 8), LE(b, 8)))

\* impl Sub for BabyBearField
FieldSub(a, b) ==
    FieldNewLE(WrappingAdd(WrappingSub(LE(a, 8), LE(b, 8)),
                           LE(BABY_BEAR_MODULUS, 8)))

\* impl Neg for BabyBearField
FieldNeg(a) == IF a = 0 THEN a ELSE BABY_BEAR_MODULUS - a

\* the loop of BabyBearField::pow
RECURSIVE PowLoop(_, _, _)
PowLoop(result, base, e) ==
    IF e > 0 /\ {result, base} \subseteq Int
    THEN PowLoop(IF e % 2 = 1 THEN FieldMul(result, base) ELSE result,
                 FieldMul(base, base), e \div 2)
    ELSE result

\* BabyBearField::pow
FieldPow(self, exp) == PowLoop(FieldONE, self, exp)

None == [some |-> FALSE]
Some(v) == [some |-> TRUE, value |-> v]

\* a variant of inverse that raises to the power p - 1
FieldInverse_OrderExponent(self) ==
    IF self = 0 THEN None ELSE Some(FieldPow(self, BABY_BEAR_MODULUS - 1))

\* BabyBearField::inverse
FieldInverse(self) ==
    IF self = 0 THEN None ELSE Some(FieldPow(self, BABY_BEAR_MODULUS - 2))

----------------------------------------------------------------------------
(* Hashing.  A digest is the symbolic pair <<"blake3", input bytes>>; the    *)
(* only fact about its bytes that the program reads, whether the digest of  *)
(* "RepID_PoW" || nonce starts with two zero bytes, is given by zeroNonces. *)

\* Hasher::new, update(input), finalize
Blake3(input) == <<"blake3", input>>

\* b"RepID_PoW"
PoWTag == <<82, 101, 112, 73, 68, 95, 80, 111, 87>>

\* the hasher input of the PoW check: the tag followed by nonce.to_le_bytes()
PoWInput(nonce) == PoWTag \o LE(nonce, 8)

\* hash.as_bytes()[0] == 0 && hash.as_bytes()[1] == 0, for a PoW digest
TwoZeroBytes(digest) == \E n \in zeroNonces : digest = Blake3(PoWInput(n))

----------------------------------------------------------------------------
(* ExecutionTrace                                                           *)

\* ExecutionTrace::new
TraceNew(width, height) ==
    [width |-> width, height |-> height,
     data |-> [r \in 1..height |-> [c \in 1..width |-> FieldZERO]]]

\* a variant of set that writes the nearest cell when out of bounds
TraceSet_Clamped(t, row, col, value) ==
    IF t.height = 0 \/ t.width = 0 THEN t
    ELSE LET r == IF row < t.height THEN row ELSE t.height - 1
             c == IF col < t.width THEN col ELSE t.width - 1
         IN [t EXCEPT !.data[r + 1][c + 1] = value]

\* ExecutionTrace::set
TraceSet(t, row, col, value) ==
    IF row < t.height /\ col < t.width
    THEN [t EXCEPT !.data[row + 1][col + 1] = value]
    ELSE t

\* ExecutionTrace::get
TraceGet(t, row, col) ==
    IF row < t.height /\ col < t.width THEN t.data[row + 1][col + 1]
    ELSE FieldZERO

\* a run of trace.set(row, col, v); col += 1 over the values vs
RECURSIVE SetRun(_, _, _, _)
SetRun(t, row, col, vs) ==
    IF vs = <<>> THEN t
    ELSE SetRun(TraceSet(t, row, col, vs[1]), row, col + 1, Tail(vs))

----------------------------------------------------------------------------
(* CustomStarkProver: the traces                                            *)

\* Option<&DecayParameters>: None, or Some of a DecayParameters
NoDecay == [some |-> FALSE]

SomeDecay(base_decay_rate, multiplicative_factor, min_threshold) ==
    [some |-> TRUE, base_decay_rate |-> base_decay_rate,
     multiplicative_factor |-> multiplicative_factor,
     min_threshold |-> min_threshold]

U32Zero == <<0, 0, 0, 0>>

\* total_score += *score over the list; overflow is set when a sum left 32 bits
RECURSIVE SumU32(_)
SumU32(scores) ==
    IF scores = <<>> THEN [value |-> U32Zero, overflow |-> FALSE]
    ELSE LET n == Len(scores)
             before == SumU32(SubSeq(scores, 1, n - 1))
             s == AddCarry(before.value, scores[n], 0)
         IN [value |-> s.bytes, overflow |-> before.overflow \/ s.carry = 1]

\* the f32 product total_score * decay_rate * (time_diff / 86400.0) cast to
\* u32, on the inputs where every f32 step is exact (DecayExact)
DecayAmount(total, decay, time_diff) ==
    (total * decay.base_decay_rate * (time_diff \div 86400)) \div 10000

\* final_score after the decay block of create_threshold_trace
DecayedScore(total, decay, current_timestamp, time_window) ==
    IF ~decay.some \/ ~(current_timestamp > time_window) THEN total
    ELSE LET t == FromLE(total)
             amount == DecayAmount(t, decay, current_timestamp - time_window)
             left == IF amount >= t THEN 0 ELSE t - amount
         IN IF left < decay.min_threshold THEN LE(decay.min_threshold, 4)
            ELSE LE(left, 4)

\* one pass of the row loop of create_threshold_trace
ThresholdRow(t, row, user_scores, threshold, time_window, decay, now) ==
    LET scores == [i \in 1..Len(user_scores) |-> user_scores[i][2]]
        total_score == SumU32(scores).value
        final_score == DecayedScore(total_score, decay, now, time_window)
        meets_threshold == IF GeqLE(final_score, threshold) THEN 1 ELSE 0
    IN SetRun(t, row, 0,
              <<FromU32(threshold), FieldNew(time_window), FieldNew(now)>>
              \o [i \in 1..Len(scores) |-> FromU32(scores[i])]
              \o <<FromU32(final_score), FromU32(LE(meets_threshold, 4)),
                   FieldONE>>)

RECURSIVE ThresholdRows(_, _, _, _, _, _, _)
ThresholdRows(t, row, user_scores, threshold, time_window, decay, now) ==
    IF row >= t.height THEN t
    ELSE ThresholdRows(
             ThresholdRow(t, row, user_scores, threshold, time_window, decay,
                          now),
             row + 1, user_scores, threshold, time_window, decay, now)

\* CustomStarkProver::create_threshold_trace; now is chrono::Utc::now(), and
\* checks tells whether the build panics on integer overflow (debug) or wraps
CreateThresholdTrace(user_scores, threshold, time_window, decay, now, checks) ==
    IF checks /\ SumU32([i \in 1..Len(user_scores) |-> user_scores[i][2]]).overflow
    THEN [panic |-> TRUE]
    ELSE [panic |-> FALSE,
          trace |-> ThresholdRows(TraceNew(6 + Len(user_scores), 8), 0,
                                  user_scores, threshold, time_window, decay,
                                  now)]

\* a variant of First8Field that reads a u32 where the code reads a u64
First8Field_U32(bytes32) == FieldNewLE(SubSeq(bytes32, 1, 4))

\* the field element of the first 8 bytes of a 32-byte array
First8Field(bytes32) == FieldNewLE(SubSeq(bytes32, 1, 8))

\* a variant of the row loop that sets all_verified when any factor is true
BiometricRow_AnyFactor(t, row, webauthn_challenge, biometric_hash, factor_proofs) ==
    LET all_verified == \E i \in 1..4 : factor_proofs[i]
    IN SetRun(t, row, 0,
              <<First8Field(webauthn_challenge), First8Field(biometric_hash)>>
              \o [i \in 1..4 |-> IF factor_proofs[i] THEN FieldONE
                                 ELSE FieldZERO]
              \o <<IF all_verified THEN FieldONE ELSE FieldZERO, FieldONE>>)

\* one pass of the row loop of create_biometric_trace
BiometricRow(t, row, webauthn_challenge, biometric_hash, factor_proofs) ==
    LET all_verified == \A i \in 1..4 : factor_proofs[i]
    IN SetRun(t, row, 0,
              <<First8Field(webauthn_challenge), First8Field(biometric_hash)>>
              \o [i \in 1..4 |-> IF factor_proofs[i] THEN FieldONE
                                 ELSE FieldZERO]
              \o <<IF all_verified THEN FieldONE ELSE FieldZERO, FieldONE>>)

RECURSIVE BiometricRows(_, _, _, _, _)
BiometricRows(t, row, webauthn_challenge, biometric_hash, factor_proofs) ==
    IF row >= t.height THEN t
    ELSE BiometricRows(
             BiometricRow(t, row, webauthn_challenge, biometric_hash,
                          factor_proofs),
             row + 1, webauthn_challenge, biometric_hash, factor_proofs)

\* CustomStarkProver::create_biometric_trace
CreateBiometricTrace(webauthn_challenge, biometric_hash, factor_proofs) ==
    BiometricRows(TraceNew(8, 4), 0, webauthn_challenge, biometric_hash,
                  factor_proofs)

\* CustomStarkProver::generate_threshold_constraints: per row the residuals
\* of threshold consistency, time_window consistency and meets_threshold
GenerateThresholdConstraints(trace, threshold, time_window) ==
    [r \in 1..trace.height |->
        LET row == r - 1
            threshold_val == TraceGet(trace, row, 0)
            expected_threshold == FromU32(threshold)
            time_val == TraceGet(trace, row, 1)
            expected_time == FieldNew(time_window)
            final_score == TraceGet(trace, row, trace.width - 2)
            meets_threshold == TraceGet(trace, row, trace.width - 1)
            threshold_check ==
                IF GeqLE(LE(final_score, 8), ZeroExtend(threshold, 8))
                THEN FieldONE ELSE FieldZERO
        IN <<FieldSub(threshold_val, expected_threshold),
             FieldSub(time_val, expected_time),
             FieldSub(meets_threshold, threshold_check)>>]

\* CustomStarkProver::generate_biometric_constraints: per row the residuals
\* of challenge consistency and of all_verified against the factors' product
GenerateBiometricConstraints(trace, webauthn_challenge) ==
    LET expected_challenge == First8Field(webauthn_challenge)
    IN [r \in 1..trace.height |->
           LET row == r - 1
               challenge_val == TraceGet(trace, row, 0)
               factor1 == TraceGet(trace, row, 2)
               factor2 == TraceGet(trace, row, 3)
               factor3 == TraceGet(trace, row, 4)
               factor4 == TraceGet(trace, row, 5)
               all_verified == TraceGet(trace, row, 6)
               expected_all_verified ==
                   FieldMul(FieldMul(FieldMul(factor1, factor2), factor3),
                            factor4)
           IN <<FieldSub(challenge_val, expected_challenge),
                FieldSub(all_verified, expected_all_verified)>>]

----------------------------------------------------------------------------
(* CustomStarkProver: commitments, LDE, FRI, PoW, queries                   *)

\* CustomStarkProver::commit_to_trace: the digest of the cells' to_bytes,
\* rows outer, columns inner
CommitToTrace(t) ==
    LET cells == [r \in 1..t.height |->
                     [c \in 1..t.width |-> ToBytes(t.data[r][c])]]
        n == t.height * t.width * 8
    IN Blake3([i \in 1..n |->
                  cells[((i - 1) \div (8 * t.width)) + 1]
                       [(((i - 1) \div 8) % t.width) + 1]
                       [((i - 1) % 8) + 1]])

\* a variant of compute_lde whose interpolation factor is the row index
ComputeLde_RowFactor(t, blowup_factor) ==
    LET extended_height == t.height * blowup_factor
    IN [width |-> t.width, height |-> extended_height,
        data |-> [r \in 1..extended_height |-> [c \in 1..t.width |->
            IF r - 1 < t.height THEN TraceGet(t, r - 1, c - 1)
            ELSE FieldMul(TraceGet(t, (r - 1) % t.height, c - 1),
                          FieldNew(r - 1))]]]

\* CustomStarkProver::compute_lde
ComputeLde(t, blowup_factor) ==
    LET extended_height == t.height * blowup_factor
    IN [width |-> t.width, height |-> extended_height,
        data |-> [r \in 1..extended_height |-> [c \in 1..t.width |->
            IF r - 1 < t.height THEN TraceGet(t, r - 1, c - 1)
            ELSE FieldMul(TraceGet(t, (r - 1) % t.height, c - 1),
                          FieldNew((r - 1) + 1))]]]

\* CustomStarkProver::commit_to_lde
CommitToLde(lde) == CommitToTrace(lde)

\* a variant of the folding loop that also folds at working size 16
RECURSIVE FriRounds_From16(_)
FriRounds_From16(s) ==
    IF s >= 16
    THEN LET rest == FriRounds_From16(s \div 2)
         IN [commitments |-> <<Blake3(LE(s, 8))>> \o rest.commitments,
             size |-> rest.size]
    ELSE [commitments |-> <<>>, size |-> s]

\* the folding loop of generate_fri_proof from working size s
RECURSIVE FriRounds(_)
FriRounds(s) ==
    IF s > 16
    THEN LET rest == FriRounds(s \div 2)
         IN [commitments |-> <<Blake3(LE(s, 8))>> \o rest.commitments,
             size |-> rest.size]
    ELSE [commitments |-> <<>>, size |-> s]

Min(a, b) == IF a <= b THEN a ELSE b

POW_LIMIT == 1000000

\* a variant of the PoW loop that gives up once the incremented nonce
\* reaches POW_LIMIT
GrindPoW_Below ==
    LET passing == {n \in zeroNonces :
                        n < POW_LIMIT /\ TwoZeroBytes(Blake3(PoWInput(n)))}
    IN IF passing = {} THEN [found |-> FALSE, pow_nonce |-> POW_LIMIT]
       ELSE [found |-> TRUE,
             pow_nonce |-> CHOOSE n \in passing : \A m \in passing : n <= m]

\* a variant of the PoW loop that leaves with the largest passing candidate
GrindPoW_Largest ==
    LET passing == {n \in zeroNonces :
                        n <= POW_LIMIT /\ TwoZeroBytes(Blake3(PoWInput(n)))}
    IN IF passing = {} THEN [found |-> FALSE, pow_nonce |-> POW_LIMIT + 1]
       ELSE [found |-> TRUE,
             pow_nonce |-> CHOOSE n \in passing : \A m \in passing : n >= m]

\* the PoW loop of generate_fri_proof: candidates 0, 1, 2, ... are tried in
\* order; the loop leaves with the first whose digest passes, and gives up
\* once the incremented nonce exceeds POW_LIMIT
GrindPoW ==
    LET passing == {n \in zeroNonces :
                        n <= POW_LIMIT /\ TwoZeroBytes(Blake3(PoWInput(n)))}
    IN IF passing = {} THEN [found |-> FALSE, pow_nonce |-> POW_LIMIT + 1]
       ELSE [found |-> TRUE,
             pow_nonce |-> CHOOSE n \in passing : \A m \in passing : n <= m]

\* the number of candidates the PoW loop hashes: 0 up to the one it leaves
\* with, or 0 up to POW_LIMIT when it gives up
GrindEvaluations ==
    IF GrindPoW.found THEN GrindPoW.pow_nonce + 1 ELSE POW_LIMIT + 1

\* CustomStarkProver::generate_fri_proof: Ok(FriProof), or the PoW timeout
GenerateFriProof(lde) ==
    LET rounds == FriRounds(lde.height)
        pow == GrindPoW
    IN IF ~pow.found
       THEN [ok |-> FALSE, error |-> "ProofGenerationError: PoW timeout"]
       ELSE [ok |-> TRUE,
             fri_proof |->
                 [commitments |-> rounds.commitments,
                  final_poly |-> [i \in 1..Min(rounds.size, 8) |-> FieldONE],
                  pow_nonce |-> pow.pow_nonce]]

\* ChaCha20Rng::from_seed([42u8; 32]): the seed byte and the words drawn
RngSeed == 42

\* the k-th u64 of the stream of the prover's generator (k from 0): a fixed
\* function of the seed and the position in the stream
StreamWord(seed, k) == ((k + seed) * (k + seed) * 31 + k * 17) % 1048576

\* the authentication path of one query: one digest per halving of the size
RECURSIVE AuthPath(_, _)
AuthPath(current_pos, current_size) ==
    IF current_size > 1
    THEN LET sibling_pos == IF current_pos % 2 = 0 THEN current_pos + 1
                            ELSE current_pos - 1
         IN <<Blake3(LE(sibling_pos, 8))>>
            \o AuthPath(current_pos \div 2, current_size \div 2)
    ELSE <<>>

\* a variant of generate_queries that reads the value from column 1
GenerateQueries_Column1(rng, num_queries, lde) ==
    [i \in 1..num_queries |->
        LET position == StreamWord(rng.seed, rng.drawn + i - 1) % lde.height
        IN [position |-> position,
            value |-> TraceGet(lde, position, 1),
            auth_path |-> AuthPath(position, lde.height)]]

\* CustomStarkProver::generate_queries with the generator at word drawn
GenerateQueries(rng, num_queries, lde) ==
    [i \in 1..num_queries |->
        LET position == StreamWord(rng.seed, rng.drawn + i - 1) % lde.height
        IN [position |-> position,
            value |-> TraceGet(lde, position, 0),
            auth_path |-> AuthPath(position, lde.height)]]

----------------------------------------------------------------------------
(* CustomStarkProver: the two proving entry points                          *)

\* a variant of the shared steps that draws a salt from the generator before
\* the commitments and hashes it into the LDE root
ProveFromTrace_Salted(prover, trace, public_inputs) ==
    LET salt == StreamWord(prover.rng.seed, prover.rng.drawn)
        salted == [prover EXCEPT !.rng.drawn = @ + 1]
        trace_commitment == CommitToTrace(trace)
        lde == ComputeLde(trace, prover.blowup_factor)
        fri == GenerateFriProof(lde)
    IN IF ~fri.ok
       THEN [status |-> "err", error |-> fri.error, prover |-> salted]
       ELSE [status |-> "ok",
             proof |-> [trace_root |-> trace_commitment,
                        lde_root |-> Blake3(LE(salt, 8)),
                        fri_proof |-> fri.fri_proof,
                        queries |-> GenerateQueries(salted.rng,
                                                    prover.num_queries, lde),
                        public_inputs |-> public_inputs],
             prover |-> [salted EXCEPT
                            !.rng.drawn = @ + prover.num_queries]]

\* the steps shared by both entry points after the trace is built
ProveFromTrace(prover, trace, public_inputs) ==
    LET trace_commitment == CommitToTrace(trace)
        lde == ComputeLde(trace, prover.blowup_factor)
        lde_commitment == CommitToLde(lde)
        fri == GenerateFriProof(lde)
    IN IF ~fri.ok
       THEN [status |-> "err", error |-> fri.error, prover |-> prover]
       ELSE [status |-> "ok",
             proof |-> [trace_root |-> trace_commitment,
                        lde_root |-> lde_commitment,
                        fri_proof |-> fri.fri_proof,
                        queries |-> GenerateQueries(prover.rng,
                                                    prover.num_queries, lde),
                        public_inputs |-> public_inputs],
             prover |-> [prover EXCEPT
                            !.rng.drawn = @ + prover.num_queries]]

\* a variant of prove_threshold_verification that publishes the timestamp in
\* the place of the time window
StarkProveThreshold_Timestamp(prover, user_scores, threshold, time_window, decay, now, checks) ==
    LET built == CreateThresholdTrace(user_scores, threshold, time_window,
                                      decay, now, checks)
    IN IF built.panic THEN [status |-> "panic", prover |-> prover]
       ELSE ProveFromTrace(prover, built.trace,
                           <<FromU32(threshold), FieldNew(now)>>)

\* CustomStarkProver::prove_threshold_verification
StarkProveThreshold(prover, user_scores, threshold, time_window, decay, now, checks) ==
    LET built == CreateThresholdTrace(user_scores, threshold, time_window,
                                      decay, now, checks)
    IN IF built.panic THEN [status |-> "panic", prover |-> prover]
       ELSE ProveFromTrace(prover, built.trace,
                           <<FromU32(threshold), FieldNew(time_window)>>)

\* CustomStarkProver::prove_biometric_verification
StarkProveBiometric(prover, webauthn_challenge, biometric_hash, factor_proofs) ==
    ProveFromTrace(prover,
                   CreateBiometricTrace(webauthn_challenge, biometric_hash,
                                        factor_proofs),
                   <<First8Field(webauthn_challenge)>>)

\* a variant of CustomStarkProver::new that seeds the generator from the day
\* the clock shows
ProverNew_ClockSeed(num_queries, blowup_factor) ==
    [num_queries |-> num_queries, blowup_factor |-> blowup_factor,
     rng |-> [seed |-> (clock \div 86400) % 256, drawn |-> 0]]

\* CustomStarkProver::new
ProverNew(num_queries, blowup_factor) ==
    [num_queries |-> num_queries, blowup_factor |-> blowup_factor,
     rng |-> [seed |-> RngSeed, drawn |-> 0]]

\* CustomStarkVerifier::new
VerifierNew(num_queries, blowup_factor) ==
    [num_queries |-> num_queries, blowup_factor |-> blowup_factor]

----------------------------------------------------------------------------
(* bincode: proof_data is the sequence of the encoding's bytes, with each   *)
(* 32-byte digest kept as one symbolic item.  Integers and lengths are 8    *)
(* little-endian bytes; a Vec is its length followed by its elements.       *)

\* the concatenation of a sequence of sequences (by halves, to keep the
\* evaluation shallow)
RECURSIVE Concat(_)
Concat(seqs) ==
    IF seqs = <<>> THEN <<>>
    ELSE IF Len(seqs) = 1 THEN seqs[1]
    ELSE LET h == Len(seqs) \div 2
         IN Concat(SubSeq(seqs, 1, h)) \o Concat(SubSeq(seqs, h + 1, Len(seqs)))

\* a Vec<BabyBearField> or Vec<u64>
SerializeWords(ws) == LE(Len(ws), 8) \o Concat([i \in 1..Len(ws) |-> LE(ws[i], 8)])

\* a Vec<[u8; 32]>
SerializeDigests(ds) == LE(Len(ds), 8) \o ds

\* a QueryResponse
SerializeQuery(q) ==
    LE(q.position, 8) \o LE(q.value, 8) \o SerializeDigests(q.auth_path)

\* bincode::serialize(&stark_proof), fields in declaration order
Serialize(proof) ==
    <<proof.trace_root, proof.lde_root>>
    \o SerializeDigests(proof.fri_proof.commitments)
    \o SerializeWords(proof.fri_proof.final_poly)
    \o LE(proof.fri_proof.pow_nonce, 8)
    \o LE(Len(proof.queries), 8)
    \o Concat([i \in 1..Len(proof.queries) |-> SerializeQuery(proof.queries[i])])
    \o SerializeWords(proof.public_inputs)

\* proof_data.len(): 8 bytes per integer, 32 per digest
RECURSIVE PathBytes(_)
PathBytes(qs) ==
    IF qs = <<>> THEN 0
    ELSE IF Len(qs) = 1 THEN 24 + 32 * Len(qs[1].auth_path)
    ELSE LET h == Len(qs) \div 2
         IN PathBytes(SubSeq(qs, 1, h)) + PathBytes(SubSeq(qs, h + 1, Len(qs)))

SerializedLen(proof) ==
    64 + 8 + 32 * Len(proof.fri_proof.commitments)
    + 8 + 8 * Len(proof.fri_proof.final_poly) + 8
    + 8 + PathBytes(proof.queries)
    + 8 + 8 * Len(proof.public_inputs)

ParseError == [ok |-> FALSE]

\* reads one u64 at item pos
ReadU64(data, pos) ==
    IF pos + 7 > Len(data) THEN ParseError
    ELSE [ok |-> TRUE, value |-> FromLE(SubSeq(data, pos, pos + 7)),
          next |-> pos + 8]

\* reads n digests from item pos
ReadDigestArray(data, pos, n) ==
    IF pos + n - 1 > Len(data) THEN ParseError
    ELSE [ok |-> TRUE, value |-> SubSeq(data, pos, pos + n - 1),
          next |-> pos + n]

\* reads a Vec<[u8; 32]>
ReadDigests(data, pos) ==
    LET len == ReadU64(data, pos)
    IN IF ~len.ok THEN ParseError
       ELSE ReadDigestArray(data, len.next, len.value)

\* reads n u64 from item pos
ReadWordArray(data, pos, n) ==
    IF pos + 8 * n - 1 > Len(data) THEN ParseError
    ELSE [ok |-> TRUE,
          value |-> [i \in 1..n |->
                        FromLE(SubSeq(data, pos + 8 * (i - 1),
                                      pos + 8 * i - 1))],
          next |-> pos + 8 * n]

\* reads a Vec<BabyBearField>: the stored u64 of each element, as it is
ReadWords(data, pos) ==
    LET len == ReadU64(data, pos)
    IN IF ~len.ok THEN ParseError
       ELSE ReadWordArray(data, len.next, len.value)

\* reads one QueryResponse
ReadQuery(data, pos) ==
    LET position == ReadU64(data, pos)
    IN IF ~position.ok THEN ParseError
       ELSE LET value == ReadU64(data, position.next)
            IN IF ~value.ok THEN ParseError
               ELSE LET path == ReadDigests(data, value.next)
                    IN IF ~path.ok THEN ParseError
                       ELSE [ok |-> TRUE,
                             value |-> [position |-> position.value,
                                        value |-> value.value,
                                        auth_path |-> path.value],
                             next |-> path.next]

\* reads n QueryResponse in a row (by halves, to keep the evaluation shallow)
RECURSIVE ReadQueryArray(_, _, _)
ReadQueryArray(data, pos, n) ==
    IF n = 0 THEN [ok |-> TRUE, value |-> <<>>, next |-> pos]
    ELSE IF n = 1
    THEN LET q == ReadQuery(data, pos)
         IN IF ~q.ok THEN ParseError
            ELSE [ok |-> TRUE, value |-> <<q.value>>, next |-> q.next]
    ELSE LET left == ReadQueryArray(data, pos, n \div 2)
         IN IF ~left.ok THEN ParseError
            ELSE LET right == ReadQueryArray(data, left.next, n - n \div 2)
                 IN IF ~right.ok THEN ParseError
                    ELSE [ok |-> TRUE, value |-> left.value \o right.value,
                          next |-> right.next]

\* bincode::deserialize::<StarkProof>(&proof_data): Ok(proof) or an error
Deserialize(data) ==
    LET roots == ReadDigestArray(data, 1, 2)
    IN IF ~roots.ok THEN ParseError
    ELSE LET commitments == ReadDigests(data, roots.next)
    IN IF ~commitments.ok THEN ParseError
    ELSE LET final_poly == ReadWords(data, commitments.next)
    IN IF ~final_poly.ok THEN ParseError
    ELSE LET pow_nonce == ReadU64(data, final_poly.next)
    IN IF ~pow_nonce.ok THEN ParseError
    ELSE LET count == ReadU64(data, pow_nonce.next)
    IN IF ~count.ok THEN ParseError
    ELSE LET queries == ReadQueryArray(data, count.next, count.value)
    IN IF ~queries.ok THEN ParseError
    ELSE LET public_inputs == ReadWords(data, queries.next)
    IN IF ~public_inputs.ok THEN ParseError
    ELSE [ok |-> TRUE,
          proof |-> [trace_root |-> roots.value[1],
                     lde_root |-> roots.value[2],
                     fri_proof |-> [commitments |-> commitments.value,
                                    final_poly |-> final_poly.value,
                                    pow_nonce |-> pow_nonce.value],
                     queries |-> queries.value,
                     public_inputs |-> public_inputs.value]]

----------------------------------------------------------------------------
(* CustomStarkVerifier                                                      *)

Ok(b) == [kind |-> "Ok", value |-> b]
Panicked == [kind |-> "Panic", value |-> FALSE]
SerializationError == [kind |-> "SerializationError", value |-> FALSE]

\* v[i] of a Vec: the element, or the out-of-bounds panic
Index(v, i) ==
    IF i < Len(v) THEN [panic |-> FALSE, value |-> v[i + 1]]
    ELSE [panic |-> TRUE, value |-> 0]

\* x as u32 of a u64: the low four bytes
AsU32(x) == FromLE(SubSeq(LE(x, 8), 1, 4))

\* CustomStarkVerifier::verify_proof_of_work
VerifyProofOfWork(fri_proof) ==
    TwoZeroBytes(Blake3(PoWInput(fri_proof.pow_nonce)))

\* a variant of verify_threshold_proof without the upper limit on the threshold
VerifyThresholdProof_NoUpper(proof) ==
    IF Len(proof.public_inputs) < 2 THEN Ok(FALSE)
    ELSE LET first == Index(proof.public_inputs, 0)
             second == Index(proof.public_inputs, 1)
         IN IF first.panic \/ second.panic THEN Panicked
            ELSE IF AsU32(first.value) = 0 THEN Ok(FALSE)
            ELSE IF second.value = 0 THEN Ok(FALSE)
            ELSE Ok(TRUE)

\* CustomStarkVerifier::verify_threshold_proof
VerifyThresholdProof(proof) ==
    IF Len(proof.public_inputs) < 2 THEN Ok(FALSE)
    ELSE LET first == Index(proof.public_inputs, 0)
             second == Index(proof.public_inputs, 1)
         IN IF first.panic \/ second.panic THEN Panicked
            ELSE LET threshold == AsU32(first.value)
                     time_window == second.value
                 IN IF threshold = 0 \/ threshold > 1000 THEN Ok(FALSE)
                    ELSE IF time_window = 0 THEN Ok(FALSE)
                    ELSE Ok(TRUE)

\* a variant of verify_biometric_proof without the is_empty guard
VerifyBiometricProof_NoGuard(proof) ==
    LET first == Index(proof.public_inputs, 0)
    IN IF first.panic THEN Panicked ELSE Ok(first.value > 0)

\* CustomStarkVerifier::verify_biometric_proof
VerifyBiometricProof(proof) ==
    IF Len(proof.public_inputs) = 0 THEN Ok(FALSE)
    ELSE LET first == Index(proof.public_inputs, 0)
         IN IF first.panic THEN Panicked
            ELSE Ok(first.value > 0)

\* a variant of verify_proof that computes the PoW check and drops its result
StarkVerifyProof_NoPoW(verifier, proof, proof_type) ==
    IF Len(proof.queries) # verifier.num_queries THEN Ok(FALSE)
    ELSE IF Len(proof.fri_proof.commitments) = 0 THEN Ok(FALSE)
    ELSE IF \E i \in 1..Len(proof.public_inputs) :
                proof.public_inputs[i] >= BABY_BEAR_MODULUS THEN Ok(FALSE)
    ELSE IF proof_type = "threshold_verification"
         THEN VerifyThresholdProof(proof)
    ELSE IF proof_type = "biometric_4fa" THEN VerifyBiometricProof(proof)
    ELSE Ok(TRUE)

\* a variant of verify_proof that also rejects an empty final_poly
StarkVerifyProof_FinalPoly(verifier, proof, proof_type) ==
    IF Len(proof.queries) # verifier.num_queries THEN Ok(FALSE)
    ELSE IF ~VerifyProofOfWork(proof.fri_proof) THEN Ok(FALSE)
    ELSE IF Len(proof.fri_proof.commitments) = 0 THEN Ok(FALSE)
    ELSE IF Len(proof.fri_proof.final_poly) = 0 THEN Ok(FALSE)
    ELSE IF \E i \in 1..Len(proof.public_inputs) :
                proof.public_inputs[i] >= BABY_BEAR_MODULUS THEN Ok(FALSE)
    ELSE IF proof_type = "threshold_verification"
         THEN VerifyThresholdProof(proof)
    ELSE IF proof_type = "biometric_4fa" THEN VerifyBiometricProof(proof)
    ELSE Ok(TRUE)

\* a variant of verify_proof that rejects the tags it does not know
StarkVerifyProof_KnownTags(verifier, proof, proof_type) ==
    IF Len(proof.queries) # verifier.num_queries THEN Ok(FALSE)
    ELSE IF ~VerifyProofOfWork(proof.fri_proof) THEN Ok(FALSE)
    ELSE IF Len(proof.fri_proof.commitments) = 0 THEN Ok(FALSE)
    ELSE IF \E i \in 1..Len(proof.public_inputs) :
                proof.public_inputs[i] >= BABY_BEAR_MODULUS THEN Ok(FALSE)
    ELSE IF proof_type = "threshold_verification"
         THEN VerifyThresholdProof(proof)
    ELSE IF proof_type = "biometric_4fa" THEN VerifyBiometricProof(proof)
    ELSE Ok(FALSE)

\* CustomStarkVerifier::verify_proof
StarkVerifyProof(verifier, proof, proof_type) ==
    IF Len(proof.queries) # verifier.num_queries THEN Ok(FALSE)
    ELSE IF ~VerifyProofOfWork(proof.fri_proof) THEN Ok(FALSE)
    ELSE IF Len(proof.fri_proof.commitments) = 0 THEN Ok(FALSE)
    ELSE IF \E i \in 1..Len(proof.public_inputs) :
                proof.public_inputs[i] >= BABY_BEAR_MODULUS THEN Ok(FALSE)
    ELSE IF proof_type = "threshold_verification"
         THEN VerifyThresholdProof(proof)
    ELSE IF proof_type = "biometric_4fa" THEN VerifyBiometricProof(proof)
    ELSE Ok(TRUE)

----------------------------------------------------------------------------
(* RepIDZKPSystem, the facade                                               *)

SecurityLevels == {"Fast", "Standard", "High"}

\* the (num_queries, blowup_factor) of a SecurityLevel
LevelParams(security_level) ==
    CASE security_level = "Fast" -> <<40, 4>>
      [] security_level = "Standard" -> <<80, 8>>
      [] security_level = "High" -> <<120, 16>>

\* RepIDZKPSystem::new
SystemNew(security_level) ==
    LET params == LevelParams(security_level)
    IN [constructed |-> TRUE, level |-> security_level,
        prover |-> ProverNew(params[1], params[2]),
        verifier |-> VerifierNew(params[1], params[2])]

NoSystem == [constructed |-> FALSE]
NoProof == [present |-> FALSE]

\* format!("{:x}", md5::compute(wallet_address.as_bytes())), symbolic
WalletHash(wallet_address) == <<"hex", <<"md5", wallet_address>>>>

\* the scores of user_scores whose category is in request.categories
FilteredScores(categories, user_scores) ==
    SelectSeq(user_scores,
              LAMBDA e : \E i \in 1..Len(categories) : categories[i] = e[1])

ScoresOf(user_scores) == [i \in 1..Len(user_scores) |-> user_scores[i][2]]

\* RepIDZKPSystem::prove_threshold_verification from the return of the
\* prover call (proved) on.  now is the wall clock at the call, elapsed the
\* milliseconds the proving took.
FacadeThresholdResult(system, proved, request, user_scores, wallet_address, now, elapsed, checks) ==
    LET after == [system EXCEPT !.prover = proved.prover]
    IN IF proved.status # "ok"
       THEN [status |-> proved.status,
             error |-> IF proved.status = "err" THEN proved.error ELSE "",
             system |-> after]
       ELSE LET proof_data == Serialize(proved.proof)
                total_score == SumU32(ScoresOf(
                                   FilteredScores(request.categories,
                                                  user_scores)))
            IN IF checks /\ total_score.overflow
               THEN [status |-> "panic", error |-> "", system |-> after]
               ELSE [status |-> "ok", error |-> "", system |-> after,
                     stark |-> proved.proof,
                     result |->
                        [meets_threshold |->
                             GeqLE(total_score.value, request.threshold),
                         proof |->
                            [present |-> TRUE,
                             proof_data |-> proof_data,
                             public_inputs |-> proved.proof.public_inputs,
                             metadata |->
                                [operation_type |-> "threshold_verification",
                                 timestamp |-> now + (elapsed \div 1000),
                                 wallet_hash |-> WalletHash(wallet_address),
                                 proof_size |-> SerializedLen(proved.proof),
                                 generation_time_ms |-> elapsed]],
                         metadata |->
                            [categories_verified |-> request.categories,
                             threshold_used |-> request.threshold,
                             time_window_applied |-> request.time_window,
                             decay_applied |-> request.decay_params.some]]]

\* RepIDZKPSystem::prove_threshold_verification
FacadeProveThreshold(system, request, user_scores, wallet_address, now, elapsed, checks) ==
    FacadeThresholdResult(
        system,
        StarkProveThreshold(system.prover, user_scores, request.threshold,
                            request.time_window, request.decay_params, now,
                            checks),
        request, user_scores, wallet_address, now, elapsed, checks)

\* RepIDZKPSystem::prove_biometric_4fa from the return of the prover call on
FacadeBiometricResult(system, proved, now, elapsed) ==
    LET after == [system EXCEPT !.prover = proved.prover]
    IN IF proved.status # "ok"
       THEN [status |-> proved.status, error |-> proved.error,
             system |-> after]
       ELSE [status |-> "ok", error |-> "", system |-> after,
             stark |-> proved.proof,
             result |->
                [present |-> TRUE,
                 proof_data |-> Serialize(proved.proof),
                 public_inputs |-> proved.proof.public_inputs,
                 metadata |->
                    [operation_type |-> "biometric_4fa",
                     timestamp |-> now + (elapsed \div 1000),
                     wallet_hash |-> "biometric_verification",
                     proof_size |-> SerializedLen(proved.proof),
                     generation_time_ms |-> elapsed]]]

\* RepIDZKPSystem::prove_biometric_4fa
FacadeProveBiometric(system, webauthn_challenge, biometric_hash, factor_proofs, now, elapsed) ==
    FacadeBiometricResult(
        system,
        StarkProveBiometric(system.prover, webauthn_challenge, biometric_hash,
                            factor_proofs),
        now, elapsed)

\* RepIDZKPSystem::verify_proof
FacadeVerifyProof(system, proof) ==
    LET parsed == Deserialize(proof.proof_data)
    IN IF ~parsed.ok THEN SerializationError
       ELSE StarkVerifyProof(system.verifier, parsed.proof,
                             proof.metadata.operation_type)

----------------------------------------------------------------------------
(* The inputs the model draws from                                          *)

U32(n) == LE(n, 4)
U32Max == <<255, 255, 255, 255>>

\* the wall clock at the start: 2026-11-04T00:00:00Z
Clock0 == 20761 * 86400
MaxTicks == 1

\* milliseconds a proving call may take
ElapsedChoices == {0, 1000}

\* the possible sets of nonces whose PoW digest has two leading zero bytes
PoWWorlds == {{3, 5}, {}}

Scores1 == <<<<"Technical", U32(75)>>, <<"Governance", U32(50)>>,
             <<"Community", U32(25)>>>>
Scores2 == <<<<"Community", U32(75)>>>>
ScoresBig == <<<<"Technical", U32Max>>, <<"Governance", U32(1)>>>>
TechGov == <<"Technical", "Governance">>

Request(threshold, categories, time_window, decay_params) ==
    [threshold |-> threshold, categories |-> categories,
     time_window |-> time_window, decay_params |-> decay_params]

Call(request, user_scores) ==
    [request |-> request, user_scores |-> user_scores, wallet |-> "0xtest"]

ThresholdCalls ==
    { Call(Request(U32(100), TechGov, 86400, NoDecay), Scores1),
      Call(Request(U32(200), TechGov, 86400, NoDecay), Scores1),
      Call(Request(U32(50), <<"Community">>, 86400, NoDecay), Scores2),
      Call(Request(U32(1000), TechGov, 86400, NoDecay), Scores1),
      Call(Request(U32(2000), TechGov, 86400, NoDecay), Scores1),
      Call(Request(U32(BABY_BEAR_MODULUS + 100), TechGov, 86400, NoDecay),
           Scores1),
      Call(Request(U32(100), TechGov, BABY_BEAR_MODULUS, NoDecay), Scores1),
      Call(Request(U32(100), TechGov, 86400, NoDecay), ScoresBig),
      Call(Request(U32(100), TechGov, Clock0 - 86400, SomeDecay(5000, 12, 10)),
           Scores1) }

Bytes32(b) == [i \in 1..32 |-> b]

BiometricCalls ==
    { [challenge |-> Bytes32(1), hash |-> Bytes32(2),
       factors |-> <<TRUE, TRUE, TRUE, TRUE>>],
      [challenge |-> Bytes32(1), hash |-> Bytes32(2),
       factors |-> <<TRUE, TRUE, FALSE, TRUE>>],
      [challenge |-> Bytes32(0), hash |-> Bytes32(2),
       factors |-> <<TRUE, TRUE, TRUE, TRUE>>] }

\* the inputs on which the f32 arithmetic of the decay block is exact: a
\* dyadic rate, a whole number of days, and a product within 24 bits
DecayExact(call, now) ==
    LET d == call.request.decay_params
        total == SumU32(ScoresOf(call.user_scores))
    IN d.some /\ now > call.request.time_window
       => /\ d.base_decay_rate \in {10000, 5000, 2500, 1250, 625}
          /\ (now - call.request.time_window) % 86400 = 0
          /\ (now - call.request.time_window) \div 86400 <= 100
          /\ ~total.overflow
          /\ GeqLE(U32(2000), total.value)

----------------------------------------------------------------------------
(* The actions                                                              *)

NoArgs == [fn |-> "none"]
NoResult == [returned |-> FALSE]

Init ==
    /\ zeroNonces \in PoWWorlds
    /\ clock = Clock0
    /\ sys = NoSystem
    /\ flight = NoProof
    /\ tampered = FALSE
    /\ out = [op |-> "none"]
    /\ accepted = FALSE
    /\ runs = <<>>
    /\ fnArgs = NoArgs
    /\ fnResult = NoResult

\* RepIDZKPSystem::new(level)
NewSystem ==
    /\ ~sys.constructed
    /\ \E level \in SecurityLevels : sys' = SystemNew(level)
    /\ UNCHANGED <<zeroNonces, clock, flight, tampered, out, accepted, runs, fnArgs, fnResult>>

\* time passes between one recorded run and the next, a day at a time
Tick ==
    /\ Len(runs) = 1
    /\ clock < Clock0 + MaxTicks * 86400
    /\ clock' = clock + 86400
    /\ UNCHANGED <<zeroNonces, sys, flight, tampered, out, accepted, runs, fnArgs, fnResult>>

\* whether a u32 sum of the call overflows
Overflows(call) == SumU32(ScoresOf(call.user_scores)).overflow

\* the state after a proving call that returned r
Proved(op, call, r, record) ==
    /\ sys' = r.system
    /\ tampered' = FALSE
    /\ accepted' = FALSE
    /\ IF r.status = "ok"
       THEN LET this == [op |-> op, status |-> "ok", error |-> "",
                         call |-> call, now |-> clock, level |-> sys.level,
                         fresh |-> sys.prover.rng.drawn = 0,
                         stark |-> r.stark,
                         meets_threshold |->
                             IF op = "prove_threshold"
                             THEN r.result.meets_threshold ELSE FALSE]
            IN /\ flight' = IF op = "prove_threshold" THEN r.result.proof
                            ELSE r.result
               /\ out' = this
               /\ runs' = IF record /\ this.fresh
                          THEN Append(runs, [op |-> op, call |-> call,
                                             now |-> clock,
                                             level |-> sys.level,
                                             stark |-> r.stark])
                          ELSE runs
       ELSE /\ flight' = NoProof
            /\ out' = [op |-> op, status |-> r.status, error |-> r.error,
                       call |-> call, now |-> clock, level |-> sys.level,
                       fresh |-> sys.prover.rng.drawn = 0]
            /\ runs' = runs

\* a call of prove_threshold_verification on the system
ThresholdCall(record, calls, elapsedChoices) ==
    /\ sys.constructed
    /\ \E call \in calls :
       \E checks \in IF Overflows(call) THEN BOOLEAN ELSE {FALSE} :
          /\ DecayExact(call, clock)
          /\ LET proved == StarkProveThreshold(
                               sys.prover, call.user_scores,
                               call.request.threshold,
                               call.request.time_window,
                               call.request.decay_params, clock, checks)
             IN \E elapsed \in elapsedChoices :
                   Proved("prove_threshold", call,
                          FacadeThresholdResult(sys, proved, call.request,
                                                call.user_scores, call.wallet,
                                                clock, elapsed, checks),
                          record)
    /\ UNCHANGED <<zeroNonces, clock, fnArgs, fnResult>>

\* a call of prove_biometric_4fa on the system
BiometricCall(record, calls, elapsedChoices) ==
    /\ sys.constructed
    /\ \E call \in calls :
          LET proved == StarkProveBiometric(sys.prover, call.challenge,
                                            call.hash, call.factors)
          IN \E elapsed \in elapsedChoices :
                Proved("prove_biometric", call,
                       FacadeBiometricResult(sys, proved, clock, elapsed),
                       record)
    /\ UNCHANGED <<zeroNonces, clock, fnArgs, fnResult>>

MaxProofs == 1

ProveThreshold ==
    /\ sys.constructed /\ sys.prover.rng.drawn < MaxProofs * sys.prover.num_queries
    /\ out.op \in {"none", "prove_threshold", "prove_biometric"}
    /\ ThresholdCall(FALSE, ThresholdCalls, {0})

ProveBiometric ==
    /\ sys.constructed /\ sys.prover.rng.drawn < MaxProofs * sys.prover.num_queries
    /\ out.op \in {"none", "prove_threshold", "prove_biometric"}
    /\ BiometricCall(FALSE, BiometricCalls, {0})

\* the ways a proof is altered between its production and its verification
SetPublicInput(proof, i, v) ==
    IF i <= Len(proof.public_inputs)
    THEN [proof EXCEPT !.public_inputs[i] = v] ELSE proof

Alterations ==
    {[kind |-> "public_input", index |-> 1, value |-> v] :
        v \in {0, 2000, BABY_BEAR_MODULUS}}
    \cup {[kind |-> "public_input", index |-> 2, value |-> v] :
        v \in {0, BABY_BEAR_MODULUS}}
    \cup {[kind |-> "pow_nonce", value |-> n] : n \in {4, 5}}
    \cup {[kind |-> k] : k \in {"drop_query", "no_queries", "no_commitments",
                                "no_public_inputs", "one_public_input",
                                "truncate", "empty"}}
    \cup {[kind |-> "operation_type", tag |-> t] :
            t \in {"threshold_verification", "biometric_4fa", "custom"}}

Altered(proof, a) ==
    LET sp == Deserialize(proof.proof_data).proof
        with(p) == [proof EXCEPT !.proof_data = Serialize(p)]
    IN CASE a.kind = "public_input" ->
              with(SetPublicInput(sp, a.index, a.value))
         [] a.kind = "pow_nonce" ->
              with([sp EXCEPT !.fri_proof.pow_nonce = a.value])
         [] a.kind = "drop_query" ->
              with([sp EXCEPT !.queries = SubSeq(@, 1, Len(@) - 1)])
         [] a.kind = "no_queries" -> with([sp EXCEPT !.queries = <<>>])
         [] a.kind = "no_commitments" ->
              with([sp EXCEPT !.fri_proof.commitments = <<>>])
         [] a.kind = "no_public_inputs" ->
              with([sp EXCEPT !.public_inputs = <<>>])
         [] a.kind = "one_public_input" ->
              with([sp EXCEPT !.public_inputs = SubSeq(@, 1, 1)])
         [] a.kind = "truncate" ->
              [proof EXCEPT !.proof_data = SubSeq(@, 1, Len(@) - 1)]
         [] a.kind = "empty" -> [proof EXCEPT !.proof_data = <<>>]
         [] a.kind = "operation_type" ->
              [proof EXCEPT !.metadata.operation_type = a.tag]

\* the proof is altered on its way to the verifier
Tamper ==
    /\ flight.present
    /\ ~tampered
    /\ out.op = "verify"
    /\ \E a \in Alterations :
          /\ flight' = Altered(flight, a)
          /\ flight' # flight
          /\ out' = [op |-> "tamper", alteration |-> a]
    /\ tampered' = TRUE
    /\ UNCHANGED <<zeroNonces, clock, sys, accepted, runs, fnArgs, fnResult>>

\* a call of verify_proof on the proof in flight
Verify ==
    /\ sys.constructed
    /\ flight.present
    /\ out.op # "verify"
    /\ LET verdict == FacadeVerifyProof(sys, flight)
       IN /\ out' = [op |-> "verify", verdict |-> verdict,
                     altered |-> tampered,
                     alteration |-> IF tampered THEN out.alteration
                                    ELSE [kind |-> "none"],
                     was_accepted |-> accepted]
          /\ accepted' = IF tampered THEN accepted ELSE verdict = Ok(TRUE)
    /\ UNCHANGED <<zeroNonces, clock, sys, flight, tampered, runs, fnArgs, fnResult>>

Next == NewSystem \/ ProveThreshold \/ ProveBiometric \/ Tamper \/ Verify

Spec == Init /\ [][Next]_vars

----------------------------------------------------------------------------
(* Runs on freshly constructed systems: the same kind of system is built    *)
(* again and a call is made on it, at whatever the clock then reads.  Two   *)
(* runs are kept, for the statements that compare two proofs.               *)

\* RepIDZKPSystem::new again, with the security level of the recorded run
Construct ==
    /\ Len(runs) < 2
    /\ sys.constructed => sys.prover.rng.drawn > 0
    /\ \E level \in SecurityLevels :
          /\ runs # <<>> => level = runs[1].level
          /\ sys' = SystemNew(level)
    /\ UNCHANGED <<zeroNonces, clock, flight, tampered, out, accepted, runs, fnArgs, fnResult>>

RunThresholdCalls ==
    { Call(Request(U32(100), TechGov, 86400, NoDecay), Scores1),
      Call(Request(U32(100), TechGov, Clock0 - 86400, SomeDecay(5000, 12, 10)),
           Scores1) }

RunBiometricCalls ==
    { c \in BiometricCalls : c.challenge = Bytes32(1) }

RunThreshold ==
    /\ Len(runs) < 2
    /\ sys.constructed /\ sys.prover.rng.drawn = 0
    /\ ThresholdCall(TRUE, RunThresholdCalls, ElapsedChoices)

RunBiometric ==
    /\ Len(runs) < 2
    /\ sys.constructed /\ sys.prover.rng.drawn = 0
    /\ BiometricCall(TRUE, RunBiometricCalls, ElapsedChoices)

NextRuns == Construct \/ Tick \/ RunThreshold \/ RunBiometric

SpecRuns == Init /\ [][NextRuns]_vars

----------------------------------------------------------------------------
(* The properties                                                           *)

\* the proof that the last verify_proof call parsed out of proof_data
Parsed == Deserialize(flight.proof_data)

\* the operation tag of the proof in flight
Tag == flight.metadata.operation_type

\* the sum of u32 scores taken in 64 bits, where it cannot wrap
RECURSIVE SumU64(_)
SumU64(scores) ==
    IF scores = <<>> THEN ZeroExtend(<<>>, 8)
    ELSE AddCarry(SumU64(Tail(scores)), ZeroExtend(scores[1], 8), 0).bytes

\* 256^(i-1) mod p for i in 1..8
Pow256ModP == <<1, 256, 65536, 16777216, 268435454, 268434910, 268295646,
                232644062>>

\* the residue mod p of the little-endian number with bytes bs (at most 8)
RECURSIVE ResidueLE(_, _)
ResidueLE(bs, i) ==
    IF i > Len(bs) THEN 0
    ELSE AddModP(MulModP(Pow256ModP[i], bs[i]), ResidueLE(bs, i + 1))

\* C1 (as the spec states it): every threshold proof that
\* prove_threshold_verification returns is accepted by verify_proof of the
\* same system, whatever the scores and the threshold.
C1_ReturnedThresholdProofVerifies ==
    (out.op = "verify" /\ ~out.altered /\ Tag = "threshold_verification")
        => out.verdict = Ok(TRUE)

\* C2 (as the spec states it): every proof that prove_biometric_4fa returns,
\* at any security level and for any challenge, hash and factors, is accepted
\* by verify_proof.
C2_ReturnedBiometricProofVerifies ==
    (out.op = "verify" /\ ~out.altered /\ Tag = "biometric_4fa")
        => out.verdict = Ok(TRUE)

\* the checks of the verifier that do not depend on the tag
C3_GenericChecks(sp) ==
    /\ Len(sp.queries) = sys.verifier.num_queries
    /\ sp.fri_proof.commitments # <<>>
    /\ sp.fri_proof.pow_nonce \in zeroNonces
    /\ \A i \in 1..Len(sp.public_inputs) :
          sp.public_inputs[i] < BABY_BEAR_MODULUS

\* C3: on a proof that parses, the verifier answers true exactly when the
\* number of queries is num_queries, there is a FRI commitment, the PoW nonce
\* is valid, every public input is below p and, under the threshold tag,
\* there are two public inputs with 1 <= first <= 1000 and second > 0, or,
\* under the biometric tag, there is a public input and the first is > 0.
\* A threshold proof whose first public input was set to 0 or 2000 is
\* rejected.
C3_VerifierAcceptsExactly ==
    (out.op = "verify" /\ Parsed.ok) =>
        LET sp == Parsed.proof
            pi == sp.public_inputs
        IN /\ out.verdict \in {Ok(TRUE), Ok(FALSE)}
           /\ Tag = "threshold_verification" =>
                 (out.verdict = Ok(TRUE) <=>
                     /\ C3_GenericChecks(sp)
                     /\ Len(pi) >= 2
                     /\ 1 <= pi[1] /\ pi[1] <= 1000
                     /\ pi[2] > 0)
           /\ Tag = "biometric_4fa" =>
                 (out.verdict = Ok(TRUE) <=>
                     /\ C3_GenericChecks(sp)
                     /\ Len(pi) >= 1
                     /\ pi[1] > 0)
           /\ (/\ Tag = "threshold_verification"
               /\ out.alteration.kind = "public_input"
               /\ out.alteration.index = 1
               /\ out.alteration.value \in {0, 2000})
                 => out.verdict = Ok(FALSE)

\* an accepted threshold proof was resubmitted with its first public input
\* set to 2000 and was rejected
C3_Witness ==
    /\ out.op = "verify" /\ out.was_accepted
    /\ Tag = "threshold_verification"
    /\ out.alteration.kind = "public_input"
    /\ out.alteration.index = 1 /\ out.alteration.value = 2000
    /\ Parsed.ok /\ Parsed.proof.public_inputs[1] = 2000
    /\ out.verdict = Ok(FALSE)

\* C4: a proof whose PoW nonce has a digest that does not start with two
\* zero bytes is rejected, whatever else it holds and whatever its tag; so
\* changing the nonce of an accepted proof to a failing one turns the
\* acceptance into a rejection.
C4_BadNonceRejected ==
    (out.op = "verify" /\ Parsed.ok
        /\ ~TwoZeroBytes(Blake3(PoWInput(Parsed.proof.fri_proof.pow_nonce))))
        => out.verdict = Ok(FALSE)

\* an accepted proof was resubmitted with a failing nonce and was rejected
C4_Witness ==
    /\ out.op = "verify" /\ out.was_accepted
    /\ out.alteration.kind = "pow_nonce"
    /\ out.alteration.value \notin zeroNonces
    /\ Parsed.ok /\ Parsed.proof.fri_proof.pow_nonce = out.alteration.value
    /\ out.verdict = Ok(FALSE)

\* C5: verify_proof of the facade never panics; it returns an error exactly
\* when proof_data does not parse (cut short or empty), and the error is a
\* SerializationError; a proof that parses but is malformed (a query missing,
\* no commitments, no public inputs) gets Ok(false).
C5_VerifyNeverPanics ==
    out.op = "verify" =>
        /\ out.verdict \in {Ok(TRUE), Ok(FALSE), SerializationError}
        /\ out.verdict = SerializationError
              <=> out.alteration.kind \in {"truncate", "empty"}
        /\ out.alteration.kind \in {"drop_query", "no_queries",
                                    "no_commitments", "no_public_inputs"}
              => out.verdict = Ok(FALSE)

\* an accepted biometric proof was resubmitted without public inputs and
\* got Ok(false)
C5_Witness ==
    /\ out.op = "verify" /\ out.was_accepted
    /\ Tag = "biometric_4fa"
    /\ out.alteration.kind = "no_public_inputs"
    /\ Parsed.ok /\ Parsed.proof.public_inputs = <<>>
    /\ out.verdict = Ok(FALSE)

\* C6 (as the spec states it): meets_threshold of a returned result is true
\* exactly when the sum of the scores whose category is in
\* request.categories is at least request.threshold.
C6_MeetsThresholdIsFilteredSum ==
    (out.op = "prove_threshold" /\ out.status = "ok") =>
        LET req == out.call.request
            sum == SumU64(ScoresOf(FilteredScores(req.categories,
                                                  out.call.user_scores)))
        IN out.meets_threshold = GeqLE(sum, ZeroExtend(req.threshold, 8))

\* C7: the public inputs of a threshold proof are the threshold and the time
\* window as field elements, in this order ([100, 86400] for threshold 100
\* and a day), and RepIDProof.public_inputs are the public inputs inside the
\* serialized proof_data.
C7_ThresholdPublicInputs ==
    (out.op = "prove_threshold" /\ out.status = "ok") =>
        LET req == out.call.request
        IN /\ out.stark.public_inputs =
                 <<FromLE(req.threshold) % BABY_BEAR_MODULUS,
                   req.time_window % BABY_BEAR_MODULUS>>
           /\ (req.threshold = U32(100) /\ req.time_window = 86400)
                 => out.stark.public_inputs = <<100, 86400>>
           /\ flight.public_inputs = out.stark.public_inputs
           /\ Parsed.ok
           /\ Parsed.proof.public_inputs = flight.public_inputs

\* a threshold proof for threshold 100 and a window of a day was returned
C7_Witness ==
    /\ out.op = "prove_threshold" /\ out.status = "ok"
    /\ out.call.request.threshold = U32(100)
    /\ out.call.request.time_window = 86400
    /\ flight.present /\ flight.public_inputs = <<100, 86400>>

\* C8 (as the spec states it): a biometric proof has one public input, whose
\* integer value equals the u64 of the first 8 challenge bytes, little-endian.
C8_ChallengeWordUnreduced ==
    (out.op = "prove_biometric" /\ out.status = "ok") =>
        /\ Len(out.stark.public_inputs) = 1
        /\ ToBytes(out.stark.public_inputs[1]) = SubSeq(out.call.challenge, 1, 8)

\* C8 (amended): a biometric proof has one public input, the field element
\* of the u64 of the first 8 challenge bytes, little-endian: that u64 reduced
\* modulo p.  For the challenge [1; 32] it is 0x0101010101010101 mod p =
\* 1054653081, which is not the u64 itself.
C8_ChallengeWordReduced ==
    (out.op = "prove_biometric" /\ out.status = "ok") =>
        LET pi == out.stark.public_inputs
            word == SubSeq(out.call.challenge, 1, 8)
        IN /\ Len(pi) = 1
           /\ pi[1] < BABY_BEAR_MODULUS
           /\ pi[1] = ResidueLE(word, 1)
           /\ out.call.challenge = Bytes32(1)
                 => (pi[1] = 1054653081 /\ ToBytes(pi[1]) # word)

\* a biometric proof for the challenge [1; 32] was returned
C8_Witness ==
    /\ out.op = "prove_biometric" /\ out.status = "ok"
    /\ out.call.challenge = Bytes32(1)
    /\ flight.present /\ flight.public_inputs = <<1054653081>>

\* two recorded runs of the same call on systems of the same level
SameRun(i, j, op) ==
    /\ runs[i].op = op /\ runs[j].op = op
    /\ runs[i].level = runs[j].level
    /\ runs[i].call = runs[j].call

\* C9 (as the spec states it): the StarkProof of a fresh prover does not
\* depend on the wall clock: the same threshold call on two fresh systems of
\* the same level gives the same StarkProof whenever it is made.
C9_ThresholdProofIgnoresClock ==
    \A i, j \in 1..Len(runs) :
        SameRun(i, j, "prove_threshold") => runs[i].stark = runs[j].stark

\* C10: two fresh provers with the same (num_queries, blowup_factor) given
\* the same biometric inputs produce the same StarkProof, and so the same
\* serialized bytes.
C10_BiometricProofsIdentical ==
    \A i, j \in 1..Len(runs) :
        SameRun(i, j, "prove_biometric") =>
            /\ runs[i].stark = runs[j].stark
            /\ Serialize(runs[i].stark) = Serialize(runs[j].stark)

\* the same biometric call was made on two fresh systems a day apart
C10_Witness ==
    /\ Len(runs) = 2
    /\ SameRun(1, 2, "prove_biometric")
    /\ runs[1].now # runs[2].now
    /\ Serialize(runs[1].stark) = flight.proof_data

\* C11 (as the spec states it): prove_threshold_verification returns Ok or
\* Err for every input and never aborts, also for score lists whose u32 sum
\* exceeds 2^32 - 1.
C11_ProveThresholdNeverAborts ==
    out.op = "prove_threshold" => out.status \in {"ok", "err"}

----------------------------------------------------------------------------
(* f32 arithmetic.  A finite f32 is [neg, m, e] with value (+/-) m * 2^e,   *)
(* where m = 0 (zero) or 2^23 <= m < 2^24.  Every operation rounds its      *)
(* exact result to the nearest such number, ties to the even mantissa, as   *)
(* IEEE 754 does.  Exponents are not bounded: the modelled runs stay far    *)
(* from overflow and from subnormal numbers, and produce no NaN.            *)

RECURSIVE Pow2(_)
Pow2(n) == IF n = 0 THEN 1 ELSE 2 * Pow2(n - 1)

\* the number of bits of n (0 for 0)
RECURSIVE BitLen(_)
BitLen(n) == IF n = 0 THEN 0 ELSE 1 + BitLen(n \div 2)

F32Zero == [neg |-> FALSE, m |-> 0, e |-> 0]

\* n / 2^k rounded to the nearest integer, ties to even; sticky tells that
\* the exact number is a little above n
RoundShift(n, sticky, k) ==
    LET q == n \div Pow2(k)
        r == n % Pow2(k)
        half == Pow2(k - 1)
        up == r > half \/ (r = half /\ (sticky \/ q % 2 = 1))
    IN IF up THEN q + 1 ELSE q

\* the f32 nearest to (+/-) (n + a little if sticky) * 2^e, for 0 <= n < 2^31
F32Round(neg, n, sticky, e) ==
    IF n = 0 THEN F32Zero
    ELSE LET len == BitLen(n)
         IN IF len > 24
            THEN LET q == RoundShift(n, sticky, len - 24)
                 IN IF q = 16777216
                    THEN [neg |-> neg, m |-> 8388608, e |-> e + len - 23]
                    ELSE [neg |-> neg, m |-> q, e |-> e + len - 24]
            ELSE [neg |-> neg, m |-> n * Pow2(24 - len), e |-> e - (24 - len)]

\* n as f32, for an unsigned integer n below 2^31
F32FromInt(n) == F32Round(FALSE, n, FALSE, 0)

F32Neg(a) == IF a.m = 0 THEN a ELSE [a EXCEPT !.neg = ~a.neg]

\* |a| < |b|
F32MagLess(a, b) ==
    IF a.m = 0 THEN b.m # 0
    ELSE IF b.m = 0 THEN FALSE
    ELSE a.e < b.e \/ (a.e = b.e /\ a.m < b.m)

\* a < b
F32Less(a, b) ==
    IF a.neg /\ ~b.neg THEN TRUE
    ELSE IF ~a.neg /\ b.neg THEN FALSE
    ELSE IF a.neg THEN F32MagLess(b, a)
    ELSE F32MagLess(a, b)

\* |a| + |b| or |a| - |b| for |a| >= |b| > 0, with the sign neg: the sum is
\* taken with three more bits than the mantissa and a sticky bit
F32AddMag(neg, a, b, subtract) ==
    LET d == a.e - b.e
        A == a.m * 8
        B8 == b.m * 8
        B == IF d > 27 THEN 0 ELSE B8 \div Pow2(d)
        sticky == IF d > 27 THEN TRUE ELSE B8 % Pow2(d) # 0
        n == IF ~subtract THEN A + B
             ELSE IF sticky THEN A - B - 1 ELSE A - B
    IN F32Round(neg, n, sticky, a.e - 3)

\* a + b
F32Add(a, b) ==
    IF a.m = 0 THEN b
    ELSE IF b.m = 0 THEN a
    ELSE IF F32MagLess(a, b)
         THEN F32AddMag(b.neg, b, a, a.neg # b.neg)
    ELSE IF a.neg # b.neg /\ a.m = b.m /\ a.e = b.e THEN F32Zero
    ELSE F32AddMag(a.neg, a, b, a.neg # b.neg)

\* a - b
F32Sub(a, b) == F32Add(a, F32Neg(b))

\* a * b: the 48-bit product of the mantissas, rounded
F32Mul(a, b) ==
    IF a.m = 0 \/ b.m = 0 THEN F32Zero
    ELSE LET h1 == a.m \div 4096
             l1 == a.m % 4096
             h2 == b.m \div 4096
             l2 == b.m % 4096
             mid == h1 * l2 + l1 * h2
             c == (mid % 4096) * 4096 + l1 * l2
             hi == h1 * h2 + mid \div 4096 + c \div 16777216
             lo == c % 16777216
         IN F32Round(a.neg # b.neg, hi * 128 + lo \div 131072,
                     lo % 131072 # 0, a.e + b.e + 17)

\* the long division of r * 2^k by d, for r < d: the quotient and whether a
\* remainder is left
RECURSIVE DivBits(_, _, _, _)
DivBits(r, d, k, q) ==
    IF k = 0 THEN [q |-> q, sticky |-> r # 0]
    ELSE IF 2 * r >= d THEN DivBits(2 * r - d, d, k - 1, 2 * q + 1)
    ELSE DivBits(2 * r, d, k - 1, 2 * q)

\* a / b, for b # 0
F32Div(a, b) ==
    IF a.m = 0 THEN F32Zero
    ELSE LET bits == DivBits(a.m % b.m, b.m, 26, a.m \div b.m)
         IN F32Round(a.neg # b.neg, bits.q, bits.sticky, a.e - b.e - 26)

\* a as u32: towards zero, negative numbers to 0 (results stay below 2^31)
F32ToU32(a) ==
    IF a.m = 0 \/ a.neg THEN 0
    ELSE IF a.e >= 0 THEN a.m * Pow2(a.e)
    ELSE IF a.e < -24 THEN 0
    ELSE a.m \div Pow2(-a.e)

\* the f32 of the decimal literal num/den
F32Lit(num, den) == F32Div(F32FromInt(num), F32FromInt(den))

----------------------------------------------------------------------------
(* HierarchicalScorer.  A HashMap is a function on its set of keys; a score *)
(* is a u32 below 2^31, a timestamp a u64 below 2^31.                       *)

F32One == F32FromInt(1)

\* HierarchicalScorer::new: the default weights and the default synergies,
\* each inserted under one ordered pair
ScorerNew ==
    [category_weights |->
        [c \in {"Governance", "Community", "Technical", "FaithTech", "DeFi"} |->
            CASE c = "Governance" -> F32Lit(10, 10)
              [] c = "Community" -> F32Lit(8, 10)
              [] c = "Technical" -> F32Lit(12, 10)
              [] c = "FaithTech" -> F32Lit(9, 10)
              [] c = "DeFi" -> F32Lit(11, 10)],
     decay_config |-> NoDecay,
     synergy_matrix |->
        [pair \in {<<"Governance", "Technical">>, <<"Community", "FaithTech">>,
                   <<"Technical", "DeFi">>} |->
            CASE pair = <<"Governance", "Technical">> -> F32Lit(13, 10)
              [] pair = <<"Community", "FaithTech">> -> F32Lit(125, 100)
              [] pair = <<"Technical", "DeFi">> -> F32Lit(12, 10)]]

\* HierarchicalScorer::with_decay
WithDecay(self, decay_params) == [self EXCEPT !.decay_config = decay_params]

\* HierarchicalScorer::set_synergy: both ordered pairs are inserted
SetSynergy(self, cat1, cat2, multiplier) ==
    [self EXCEPT !.synergy_matrix =
        [pair \in DOMAIN @ \cup {<<cat1, cat2>>, <<cat2, cat1>>} |->
            IF pair \in {<<cat1, cat2>>, <<cat2, cat1>>} THEN multiplier
            ELSE @[pair]]]

\* self.category_weights.get(category).unwrap_or(&1.0)
WeightOf(self, category) ==
    IF category \in DOMAIN self.category_weights
    THEN self.category_weights[category] ELSE F32One

\* a variant of the first loop that assigns the weighted score where the code
\* adds it
RECURSIVE BaseScore_Assign(_, _, _)
BaseScore_Assign(self, user_scores, n) ==
    IF n = 0 THEN F32Zero
    ELSE IF user_scores[n][2] > 0
    THEN F32Mul(F32FromInt(user_scores[n][2]), WeightOf(self, user_scores[n][1]))
    ELSE BaseScore_Assign(self, user_scores, n - 1)

\* the first loop of calculate_score over the first n entries: base_score
RECURSIVE BaseScore(_, _, _)
BaseScore(self, user_scores, n) ==
    IF n = 0 THEN F32Zero
    ELSE LET before == BaseScore(self, user_scores, n - 1)
             category == user_scores[n][1]
             raw_score == user_scores[n][2]
         IN IF raw_score > 0
            THEN F32Add(before, F32Mul(F32FromInt(raw_score),
                                       WeightOf(self, category)))
            ELSE before

\* the first loop of calculate_score: active_categories
ActiveCategories(user_scores) ==
    LET active == SelectSeq(user_scores, LAMBDA entry : entry[2] > 0)
    IN [i \in 1..Len(active) |-> active[i][1]]

\* user_scores.iter().find(|(c, _)| c == cat).map(|(_, s)| *s as f32)
\*     .unwrap_or(0.0)
FirstScore(user_scores, cat) ==
    LET found == SelectSeq(user_scores, LAMBDA entry : entry[1] = cat)
    IN IF found = <<>> THEN F32Zero ELSE F32FromInt(found[1][2])

\* the body of the pair loop for the active categories at i and j (from 0)
SynergyTerm(self, user_scores, active_categories, i, j) ==
    LET cat1 == active_categories[i + 1]
        cat2 == active_categories[j + 1]
    IN IF <<cat1, cat2>> \in DOMAIN self.synergy_matrix
       THEN F32Mul(F32Add(FirstScore(user_scores, cat1),
                          FirstScore(user_scores, cat2)),
                   F32Sub(self.synergy_matrix[<<cat1, cat2>>], F32One))
       ELSE F32Zero

\* the pair loop of calculate_score from the pair (i, j) on, i < j
RECURSIVE SynergyFrom(_, _, _, _, _, _)
SynergyFrom(self, user_scores, active_categories, i, j, synergy_bonus) ==
    LET n == Len(active_categories)
    IN IF i >= n THEN synergy_bonus
       ELSE IF j >= n
       THEN SynergyFrom(self, user_scores, active_categories, i + 1, i + 2,
                        synergy_bonus)
       ELSE SynergyFrom(
                self, user_scores, active_categories, i, j + 1,
                IF <<active_categories[i + 1], active_categories[j + 1]>>
                       \in DOMAIN self.synergy_matrix
                THEN F32Add(synergy_bonus,
                            SynergyTerm(self, user_scores, active_categories,
                                        i, j))
                ELSE synergy_bonus)

\* the decay block of calculate_score: final_score after it
ScorerDecayed(decay_params, final_score, timestamp, time_window) ==
    LET time_diff == timestamp - time_window
        decay_rate == F32Div(F32FromInt(decay_params.base_decay_rate),
                             F32FromInt(10000))
        decay_amount == F32Mul(F32Mul(final_score, decay_rate),
                               F32Div(F32FromInt(time_diff),
                                      F32FromInt(86400)))
        left == F32Sub(final_score, decay_amount)
        floor == F32FromInt(decay_params.min_threshold)
    IN IF F32Less(left, floor) THEN floor ELSE left

\* HierarchicalScorer::calculate_score
CalculateScore(self, user_scores, timestamp, time_window) ==
    LET base_score == BaseScore(self, user_scores, Len(user_scores))
        active_categories == ActiveCategories(user_scores)
        synergy_bonus == SynergyFrom(self, user_scores, active_categories,
                                     0, 1, F32Zero)
        summed == F32Add(base_score, synergy_bonus)
        decay_applied == self.decay_config.some /\ timestamp > time_window
        decayed == IF decay_applied
                   THEN ScorerDecayed(self.decay_config, summed, timestamp,
                                      time_window)
                   ELSE summed
        multiplicative_bonus ==
            IF self.decay_config.some
            THEN F32Mul(F32FromInt(Len(active_categories)),
                        self.decay_config.multiplicative_factor)
            ELSE F32Zero
        final_score == F32Add(decayed, multiplicative_bonus)
    IN [base_score |-> F32ToU32(base_score),
        synergy_bonus |-> F32ToU32(synergy_bonus),
        multiplicative_bonus |-> F32ToU32(multiplicative_bonus),
        final_score |-> F32ToU32(final_score),
        active_categories |-> active_categories,
        decay_applied |-> decay_applied,
        timestamp |-> timestamp]

----------------------------------------------------------------------------
(* calculate_score applied on its own, to a list of scores and to a second  *)
(* list that is the first one reordered or with one score raised.           *)

\* the facade is not in use
FacadeIdle ==
    /\ clock = Clock0
    /\ sys = NoSystem
    /\ flight = NoProof
    /\ tampered = FALSE
    /\ out = [op |-> "none"]
    /\ accepted = FALSE
    /\ runs = <<>>

facadeVars == <<zeroNonces, clock, sys, flight, tampered, out, accepted, runs>>

MaxEntries == 2
ScorerCategories == {"Governance", "Technical", "DeFi"}
ScoreValues == {0, 50, 75}

ScoreLists ==
    UNION {[1..n -> ScorerCategories \X ScoreValues] : n \in 1..MaxEntries}

\* (timestamp, time_window): equal, before the window's end, two days after
TimeChoices == {<<2000, 2000>>, <<1000, 2000>>, <<86400 * 3, 86400>>}

DecayConfigs ==
    {NoDecay,
     SomeDecay(500, F32Lit(12, 10), 10),
     SomeDecay(500, F32Neg(F32FromInt(100)), 10)}

\* b is a with its entries in another order
IsReordering(a, b) ==
    /\ Len(a) = Len(b)
    /\ \E f \in Permutations(1..Len(a)) : b = [i \in 1..Len(a) |-> a[f[i]]]

\* b is a with the score of exactly one entry raised
IsRaisedOnce(a, b) ==
    /\ Len(a) = Len(b)
    /\ \E i \in 1..Len(a) :
          /\ b[i][1] = a[i][1] /\ b[i][2] > a[i][2]
          /\ \A j \in 1..Len(a) : j # i => b[j] = a[j]

\* the lists that are a reordered, and a with one score raised
Variants(a) ==
    {[i \in 1..Len(a) |-> a[f[i]]] : f \in Permutations(1..Len(a))}
        \cup UNION {{[a EXCEPT ![i] = <<a[i][1], v>>] :
                         v \in {higher \in ScoreValues : higher > a[i][2]}} :
                     i \in 1..Len(a)}

InitScorer ==
    /\ FacadeIdle
    /\ zeroNonces = {}
    /\ \E user_scores \in ScoreLists, t \in TimeChoices, decay \in DecayConfigs :
          \E other \in Variants(user_scores) :
          /\ IsReordering(user_scores, other) \/ IsRaisedOnce(user_scores, other)
          /\ fnArgs = [fn |-> "calculate_score", decay_config |-> decay,
                       first |-> user_scores, second |-> other,
                       timestamp |-> t[1], time_window |-> t[2]]
    /\ fnResult = NoResult

\* the scorer is built (new, then with_decay if a decay is configured) and
\* calculate_score is called on each of the two lists
Score ==
    /\ fnArgs.fn = "calculate_score"
    /\ ~fnResult.returned
    /\ LET scorer == IF fnArgs.decay_config.some
                     THEN WithDecay(ScorerNew, fnArgs.decay_config)
                     ELSE ScorerNew
       IN fnResult' =
             [returned |-> TRUE,
              first |-> CalculateScore(scorer, fnArgs.first, fnArgs.timestamp,
                                       fnArgs.time_window),
              second |-> CalculateScore(scorer, fnArgs.second,
                                        fnArgs.timestamp, fnArgs.time_window)]
    /\ UNCHANGED <<facadeVars, fnArgs>>

NextScorer == Score

SpecScorer == InitScorer /\ [][NextScorer]_vars

Scored == fnArgs.fn = "calculate_score" /\ fnResult.returned

\* C12 (as the spec states it): with the default scorer, synergy_bonus and
\* final_score are the same for every ordering of the same entries.
C12_SynergyIgnoresOrder ==
    (Scored /\ ~fnArgs.decay_config.some
        /\ IsReordering(fnArgs.first, fnArgs.second))
        => /\ fnResult.first.synergy_bonus = fnResult.second.synergy_bonus
           /\ fnResult.first.final_score = fnResult.second.final_score

\* C13: with the default weights and synergies and no decay configured,
\* raising the score of one entry, the others fixed, never lowers
\* final_score, the step from 0 included.
C13_ScoreMonotone ==
    (Scored /\ ~fnArgs.decay_config.some
        /\ IsRaisedOnce(fnArgs.first, fnArgs.second))
        => fnResult.first.final_score <= fnResult.second.final_score

\* the second entry (Governance, after Technical) was raised from 0 to 50 and
\* final_score went from 90 to 140
C13_Witness ==
    /\ Scored /\ ~fnArgs.decay_config.some
    /\ fnArgs.first = <<<<"Technical", 75>>, <<"Governance", 0>>>>
    /\ fnArgs.second = <<<<"Technical", 75>>, <<"Governance", 50>>>>
    /\ fnResult.first.final_score = 90
    /\ fnResult.second.final_score = 140

\* C14 (as the spec states it): decay_applied is true exactly when a decay
\* is configured and timestamp > time_window; when timestamp <= time_window,
\* decay_applied is false and final_score >= base_score.
C14_DecayAppliedAndFloor ==
    Scored =>
        \A r \in {fnResult.first, fnResult.second} :
            /\ r.decay_applied
                  <=> (fnArgs.decay_config.some
                       /\ fnArgs.timestamp > fnArgs.time_window)
            /\ fnArgs.timestamp <= fnArgs.time_window
                  => (~r.decay_applied /\ r.final_score >= r.base_score)

----------------------------------------------------------------------------
(* The field operations applied on their own to reduced operands.           *)

\* reduced field elements: the ends of the range, its middle, powers of two
FieldSamples ==
    {0, 1, 2, 100, 255, 65536, 86400, 1073741824, 1006632960, 1006632961,
     BABY_BEAR_MODULUS - 2, BABY_BEAR_MODULUS - 1}

FieldOps == {"add", "sub", "mul", "neg", "inverse"}

InitField ==
    /\ FacadeIdle
    /\ zeroNonces = {}
    /\ \E op \in FieldOps, a \in FieldSamples, b \in FieldSamples :
          fnArgs = [fn |-> op, a |-> a, b |-> b]
    /\ fnResult = NoResult

Returns(fn, value) ==
    /\ fnArgs.fn = fn
    /\ ~fnResult.returned
    /\ fnResult' = [returned |-> TRUE, value |-> value]
    /\ UNCHANGED <<facadeVars, fnArgs>>

Add == Returns("add", FieldAdd(fnArgs.a, fnArgs.b))
Sub == Returns("sub", FieldSub(fnArgs.a, fnArgs.b))
Mul == Returns("mul", FieldMul(fnArgs.a, fnArgs.b))
Neg == Returns("neg", FieldNeg(fnArgs.a))
Inverse == Returns("inverse", FieldInverse(fnArgs.a))

NextField == Add \/ Sub \/ Mul \/ Neg \/ Inverse

SpecField == InitField /\ [][NextField]_vars

\* 2^n * x mod p by n doublings
RECURSIVE Doubled(_, _)
Doubled(x, n) ==
    IF n = 0 THEN x ELSE LET y == Doubled(x, n - 1) IN AddModP(y, y)

\* the residue mod p of the little-endian number bs, by Horner's rule from
\* its most significant byte: acc is the residue of the bytes above byte i
RECURSIVE ResidueFrom(_, _, _)
ResidueFrom(bs, i, acc) ==
    IF i > 0 /\ acc \in Int
    THEN ResidueFrom(bs, i - 1, AddModP(Doubled(acc, 8), bs[i]))
    ELSE acc

Residue(bs) == ResidueFrom(bs, Len(bs), 0)

\* the carries of a sequence of column sums, least significant first
RECURSIVE Carried(_, _)
Carried(cols, c) ==
    IF cols = <<>> THEN <<>>
    ELSE <<(cols[1] + c) % 256>> \o Carried(Tail(cols), (cols[1] + c) \div 256)

\* column n of the schoolbook product of two four-byte values, from digit k
RECURSIVE ColumnSum(_, _, _, _)
ColumnSum(x, y, n, k) ==
    IF k > 4 THEN 0
    ELSE (IF n + 1 - k \in 1..4 THEN x[k] * y[n + 1 - k] ELSE 0)
            + ColumnSum(x, y, n, k + 1)

\* the exact product of two values below 2^32, as eight little-endian bytes
Product(a, b) ==
    Carried([n \in 1..8 |-> ColumnSum(LE(a, 4), LE(b, 4), n, 1)], 0)

InField(x) == x \in 0..(BABY_BEAR_MODULUS - 1)

Returned(fn) == fnArgs.fn = fn /\ fnResult.returned

\* C15: for reduced a and b, add, sub, mul and neg return a value in [0, p)
\* equal to (a + b) mod p, (a + p - b) mod p, (a * b) mod p and (p - a) mod p.
C15_FieldOpsReduced ==
    LET a == fnArgs.a
        b == fnArgs.b
    IN /\ Returned("add") =>
             InField(fnResult.value) /\ fnResult.value = AddModP(a, b)
       /\ Returned("sub") =>
             /\ InField(fnResult.value)
             /\ fnResult.value = AddModP(a, (BABY_BEAR_MODULUS - b) % BABY_BEAR_MODULUS)
       /\ Returned("mul") =>
             InField(fnResult.value) /\ fnResult.value = Residue(Product(a, b))
       /\ Returned("neg") =>
             /\ InField(fnResult.value)
             /\ fnResult.value = (BABY_BEAR_MODULUS - a) % BABY_BEAR_MODULUS

\* sub was applied to a < b, where wrapping_sub wraps, and mul to operands
\* whose product needs more than 32 bits
C15_Witness ==
    \/ /\ Returned("sub") /\ fnArgs.a = 1 /\ fnArgs.b = BABY_BEAR_MODULUS - 1
       /\ fnResult.value = 2
    \/ /\ Returned("mul") /\ fnArgs.a = BABY_BEAR_MODULUS - 1
       /\ fnArgs.b = BABY_BEAR_MODULUS - 1 /\ fnResult.value = 1

\* C16: inverse(a) is None exactly when a is zero; otherwise it is Some(b)
\* with b reduced and a * b == 1, b being a^(p-2).
C16_InverseIsInverse ==
    Returned("inverse") =>
        /\ fnResult.value.some <=> fnArgs.a # 0
        /\ fnResult.value.some =>
              /\ InField(fnResult.value.value)
              /\ Residue(Product(fnArgs.a, fnResult.value.value)) = 1
              /\ FieldMul(fnArgs.a, fnResult.value.value) = FieldONE

\* inverse(2) returned (p + 1) / 2
C16_Witness ==
    /\ Returned("inverse") /\ fnArgs.a = 2
    /\ fnResult.value = Some(1006632961)

----------------------------------------------------------------------------
(* The queries of a returned proof.                                         *)

\* the trace that the last proving call built
TraceOfCall ==
    IF out.op = "prove_threshold"
    THEN CreateThresholdTrace(out.call.user_scores, out.call.request.threshold,
                              out.call.request.time_window,
                              out.call.request.decay_params, out.now,
                              FALSE).trace
    ELSE CreateBiometricTrace(out.call.challenge, out.call.hash,
                              out.call.factors)

\* the number of queries and the blowup factor the spec gives for each level
QueriesOfLevel ==
    [Fast |-> 40, Standard |-> 80, High |-> 120]
BlowupOfLevel ==
    [Fast |-> 4, Standard |-> 8, High |-> 16]

ProofReturned ==
    out.op \in {"prove_threshold", "prove_biometric"} /\ out.status = "ok"

\* C17: a returned proof has exactly the level's number of queries (40, 80,
\* 120), which is the verifier's count; every query has position < lde.height,
\* value = lde[position][0], and an auth_path of log2(lde.height) digests.
C17_QueriesOfProof ==
    ProofReturned =>
        LET lde == ComputeLde(TraceOfCall, BlowupOfLevel[out.level])
            queries == out.stark.queries
        IN /\ Len(queries) = QueriesOfLevel[out.level]
           /\ Len(queries) = sys.verifier.num_queries
           /\ \A i \in 1..Len(queries) :
                 /\ queries[i].position \in 0..(lde.height - 1)
                 /\ queries[i].value = lde.data[queries[i].position + 1][1]
                 /\ Pow2(Len(queries[i].auth_path)) = lde.height

\* a threshold proof of level High was returned, with 120 queries, one of
\* them at a row of the extension whose value is not the trace's
C17_Witness ==
    /\ ProofReturned /\ out.op = "prove_threshold" /\ out.level = "High"
    /\ Len(out.stark.queries) = 120
    /\ \E i \in 1..120 :
          /\ out.stark.queries[i].position >= 8
          /\ out.stark.queries[i].value # TraceOfCall.data[1][1]
          /\ Len(out.stark.queries[i].auth_path) = 7

----------------------------------------------------------------------------
(* generate_fri_proof applied on its own to an LDE of any height.           *)

MaxHeight == 130

\* the sets of passing nonces: also the last candidate the loop tries alone,
\* and the first it never tries alone
FriWorlds == PoWWorlds \cup {{POW_LIMIT}, {POW_LIMIT + 1}}

InitFri ==
    /\ FacadeIdle
    /\ zeroNonces \in FriWorlds
    /\ \E height \in 0..MaxHeight :
          fnArgs = [fn |-> "generate_fri_proof", lde |-> TraceNew(1, height)]
    /\ fnResult = NoResult

GenerateFri ==
    /\ fnArgs.fn = "generate_fri_proof"
    /\ ~fnResult.returned
    /\ fnResult' = [returned |-> TRUE, value |-> GenerateFriProof(fnArgs.lde)]
    /\ UNCHANGED <<facadeVars, fnArgs>>

NextFri == GenerateFri

SpecFri == InitFri /\ [][NextFri]_vars

\* the number of halvings of h performed while the working size exceeds 16
Halvings(h) ==
    CHOOSE k \in 0..31 :
        /\ h \div Pow2(k) <= 16
        /\ \A j \in 0..(k - 1) : h \div Pow2(j) > 16

FriReturned ==
    fnArgs.fn = "generate_fri_proof" /\ fnResult.returned /\ fnResult.value.ok

\* C18: for every LDE height, commitments has one entry per halving of the
\* working size performed while it exceeds 16, and final_poly is
\* min(s_final, 8) copies of one, so never more than 8 elements.
C18_FriShape ==
    FriReturned =>
        LET h == fnArgs.lde.height
            fri == fnResult.value.fri_proof
        IN /\ Len(fri.commitments) = Halvings(h)
           /\ Len(fri.final_poly) = Min(h \div Pow2(Halvings(h)), 8)
           /\ \A i \in 1..Len(fri.final_poly) : fri.final_poly[i] = 1
           /\ Len(fri.final_poly) <= 8

\* for height 128 three commitments and eight ones were returned
C18_Witness ==
    /\ FriReturned /\ fnArgs.lde.height = 128
    /\ Len(fnResult.value.fri_proof.commitments) = 3
    /\ fnResult.value.fri_proof.final_poly = <<1, 1, 1, 1, 1, 1, 1, 1>>

----------------------------------------------------------------------------
(* create_threshold_trace and generate_threshold_constraints applied on     *)
(* their own, as prove_threshold_verification applies them.                 *)

MaxScores == 2

\* scores below and above the threshold, above the modulus, and the largest
TraceScores ==
    {U32(0), U32(50), U32(150), U32(BABY_BEAR_MODULUS + 100), U32Max}

TraceCategories == <<"Technical", "Governance", "Community", "DeFi">>

TraceScoreLists ==
    UNION {{[i \in 1..n |-> <<TraceCategories[i], v[i]>>] :
               v \in [1..n -> TraceScores]} : n \in 0..MaxScores}

TraceThresholds == {U32(0), U32(1), U32(100), U32(200)}

\* a window of a day, and a window that ended a day before the clock's time
TraceWindows == {86400, Clock0 - 86400}

TraceDecays == {NoDecay, SomeDecay(5000, F32Lit(12, 10), 10)}

TraceCalls ==
    {Call(Request(threshold, <<>>, time_window, decay), user_scores) :
        threshold \in TraceThresholds, time_window \in TraceWindows,
        decay \in TraceDecays, user_scores \in TraceScoreLists}

InitTrace ==
    /\ FacadeIdle
    /\ zeroNonces = {}
    /\ \E call \in TraceCalls :
       \E checks \in IF Overflows(call) THEN BOOLEAN ELSE {FALSE} :
          /\ DecayExact(call, clock)
          /\ fnArgs = [fn |-> "create_threshold_trace", call |-> call,
                       checks |-> checks]
    /\ fnResult = NoResult

\* the first step of prove_threshold_verification
CreateTrace ==
    /\ fnArgs.fn = "create_threshold_trace"
    /\ ~fnResult.returned
    /\ LET call == fnArgs.call
           built == CreateThresholdTrace(call.user_scores,
                                         call.request.threshold,
                                         call.request.time_window,
                                         call.request.decay_params, clock,
                                         fnArgs.checks)
       IN fnResult' = IF built.panic
                      THEN [returned |-> TRUE, panic |-> TRUE]
                      ELSE [returned |-> TRUE, panic |-> FALSE,
                            trace |-> built.trace, constrained |-> FALSE]
    /\ UNCHANGED <<facadeVars, fnArgs>>

\* its second step, on the trace of the first
GenerateConstraints ==
    /\ fnArgs.fn = "create_threshold_trace"
    /\ fnResult.returned /\ ~fnResult.panic /\ ~fnResult.constrained
    /\ fnResult' =
          [returned |-> TRUE, panic |-> FALSE, trace |-> fnResult.trace,
           constrained |-> TRUE,
           constraints |->
               GenerateThresholdConstraints(fnResult.trace,
                                            fnArgs.call.request.threshold,
                                            fnArgs.call.request.time_window)]
    /\ UNCHANGED <<facadeVars, fnArgs>>

NextTrace == CreateTrace \/ GenerateConstraints

SpecTrace == InitTrace /\ [][NextTrace]_vars

TraceBuilt ==
    fnArgs.fn = "create_threshold_trace" /\ fnResult.returned /\ ~fnResult.panic

\* C19 (as the spec states it): every residual that
\* generate_threshold_constraints computes on the trace built by
\* create_threshold_trace for the same threshold and time_window is zero, in
\* every one of the 8 rows.
C19_ResidualsZero ==
    (TraceBuilt /\ fnResult.constrained) =>
        /\ Len(fnResult.constraints) = 8
        /\ \A r \in 1..8 : fnResult.constraints[r] = <<0, 0, 0>>

\* C20 (as the spec states it): the threshold trace has height 8 and width
\* w = 6 + k; in every row col[0] = F(threshold), col[1] = F(time_window),
\* col[3+i] = F(score_i), col[w-1] = 1, and col[w-2] is 1 if col[w-3] is
\* >= threshold and 0 otherwise.
C20_ThresholdTraceLayout ==
    TraceBuilt =>
        LET trace == fnResult.trace
            call == fnArgs.call
            k == Len(call.user_scores)
            w == 6 + k
        IN /\ trace.height = 8
           /\ trace.width = w
           /\ \A r \in 1..8 :
                 LET col == trace.data[r]
                 IN /\ col[1] = Residue(call.request.threshold)
                    /\ col[2] = call.request.time_window % BABY_BEAR_MODULUS
                    /\ \A i \in 1..k :
                          col[3 + i] = Residue(call.user_scores[i][2])
                    /\ col[w] = 1
                    /\ col[w - 1] =
                          IF GeqLE(LE(col[w - 2], 4), call.request.threshold)
                          THEN 1 ELSE 0

----------------------------------------------------------------------------
(* create_biometric_trace and generate_biometric_constraints applied on     *)
(* their own, as prove_biometric_verification applies them.                 *)

\* 32-byte arrays: constant ones, and one whose first 8 bytes are p + 1
Bytes32From(bs) == [i \in 1..32 |-> IF i <= Len(bs) THEN bs[i] ELSE 7]

BioChallenges ==
    {Bytes32(0), Bytes32(1), Bytes32(255),
     Bytes32From(LE(BABY_BEAR_MODULUS + 1, 8))}

BioHashes == {Bytes32(2), Bytes32(255)}

InitBio ==
    /\ FacadeIdle
    /\ zeroNonces = {}
    /\ \E challenge \in BioChallenges, hash \in BioHashes,
          factors \in [1..4 -> BOOLEAN] :
          fnArgs = [fn |-> "create_biometric_trace", challenge |-> challenge,
                    hash |-> hash, factors |-> factors]
    /\ fnResult = NoResult

\* the first step of prove_biometric_verification
CreateBioTrace ==
    /\ fnArgs.fn = "create_biometric_trace"
    /\ ~fnResult.returned
    /\ fnResult' = [returned |-> TRUE, constrained |-> FALSE,
                    trace |-> CreateBiometricTrace(fnArgs.challenge,
                                                   fnArgs.hash, fnArgs.factors)]
    /\ UNCHANGED <<facadeVars, fnArgs>>

\* its second step, on the trace of the first
GenerateBioConstraints ==
    /\ fnArgs.fn = "create_biometric_trace"
    /\ fnResult.returned /\ ~fnResult.constrained
    /\ fnResult' =
          [returned |-> TRUE, constrained |-> TRUE, trace |-> fnResult.trace,
           constraints |-> GenerateBiometricConstraints(fnResult.trace,
                                                        fnArgs.challenge)]
    /\ UNCHANGED <<facadeVars, fnArgs>>

NextBio == CreateBioTrace \/ GenerateBioConstraints

SpecBio == InitBio /\ [][NextBio]_vars

BioTraceBuilt == fnArgs.fn = "create_biometric_trace" /\ fnResult.returned

\* C21: the biometric trace has height 4 and width 8; in every row column 0
\* is the challenge field element, columns 2..5 are the four factor flags as
\* 0/1, column 6 is 1 iff all four factors are true and equals the product of
\* columns 2..5, column 7 is 1; and every residual of
\* generate_biometric_constraints is zero.
C21_BiometricTraceAndResiduals ==
    BioTraceBuilt =>
        LET trace == fnResult.trace
            all == \A i \in 1..4 : fnArgs.factors[i]
        IN /\ trace.height = 4 /\ trace.width = 8
           /\ \A r \in 1..4 :
                 LET col == trace.data[r]
                 IN /\ col[1] = Residue(SubSeq(fnArgs.challenge, 1, 8))
                    /\ \A i \in 1..4 :
                          col[2 + i] = IF fnArgs.factors[i] THEN 1 ELSE 0
                    /\ col[7] \in {0, 1}
                    /\ col[7] = 1 <=> all
                    /\ col[7] = col[3] * col[4] * col[5] * col[6]
                    /\ col[8] = 1
           /\ fnResult.constrained =>
                 /\ Len(fnResult.constraints) = 4
                 /\ \A r \in 1..4 : fnResult.constraints[r] = <<0, 0>>

\* the residuals were computed for a challenge whose first 8 bytes exceed p
\* and factors of which the third is false
C21_Witness ==
    /\ BioTraceBuilt /\ fnResult.constrained
    /\ fnArgs.challenge = Bytes32From(LE(BABY_BEAR_MODULUS + 1, 8))
    /\ fnArgs.factors = <<TRUE, TRUE, FALSE, TRUE>>
    /\ fnResult.trace.data[1][1] = 1
    /\ fnResult.trace.data[1][7] = 0
    /\ fnResult.constraints[4] = <<0, 0>>

----------------------------------------------------------------------------
(* The PoW search.                                                          *)

FriCalled == fnArgs.fn = "generate_fri_proof" /\ fnResult.returned

\* C22 (as the spec states it): one call hashes at most 1,000,000 candidate
\* nonces, and if none of the nonces 0 .. 999,999 passes, the call fails with
\* ProofGenerationError("PoW timeout") and returns no proof.
C22_PoWBudget ==
    FriCalled =>
        /\ GrindEvaluations <= 1000000
        /\ (zeroNonces \cap 0..999999 = {})
              => /\ ~fnResult.value.ok
                 /\ fnResult.value.error = "ProofGenerationError: PoW timeout"


\* C22 (amended): one call hashes at most 1,000,001 candidate nonces, 0 up to
\* 1,000,000 inclusive; it returns a FriProof when one of them passes, and
\* fails with ProofGenerationError("PoW timeout"), returning no proof, when
\* none of the nonces 0 .. 1,000,000 passes.
C22_PoWBudgetInclusive ==
    FriCalled =>
        /\ GrindEvaluations <= 1000001
        /\ (zeroNonces \cap 0..1000000 = {})
              => /\ ~fnResult.value.ok
                 /\ fnResult.value.error = "ProofGenerationError: PoW timeout"
        /\ (zeroNonces \cap 0..1000000 # {}) => fnResult.value.ok

\* the only passing nonce was 1,000,000 and the call returned a proof with it
C22_Witness ==
    /\ FriCalled /\ zeroNonces = {1000000}
    /\ fnResult.value.ok
    /\ fnResult.value.fri_proof.pow_nonce = 1000000


\* C23: when proving succeeds, fri_proof.pow_nonce is the smallest nonce,
\* counting up from 0, whose PoW digest starts with two zero bytes, and the
\* verifier's PoW check passes on it, in the proof as returned and as parsed
\* from proof_data.
C23_PoWNonceSmallestAndAccepted ==
    ProofReturned =>
        LET n == out.stark.fri_proof.pow_nonce
        IN /\ TwoZeroBytes(Blake3(PoWInput(n)))
           /\ \A m \in 0..(n - 1) : ~TwoZeroBytes(Blake3(PoWInput(m)))
           /\ VerifyProofOfWork(out.stark.fri_proof)
           /\ Parsed.ok
           /\ Parsed.proof.fri_proof.pow_nonce = n
           /\ VerifyProofOfWork(Parsed.proof.fri_proof)

\* nonces 3 and 5 pass and the returned proof carries 3
C23_Witness ==
    /\ ProofReturned /\ zeroNonces = {3, 5}
    /\ out.stark.fri_proof.pow_nonce = 3
    /\ flight.present

----------------------------------------------------------------------------
(* compute_lde applied on its own to a trace of any shape.                  *)

MaxSide == 2

LdeCells == {2, BABY_BEAR_MODULUS - 1}

LdeTraces ==
    UNION {{[width |-> w, height |-> h, data |-> d] :
               d \in [1..h -> [1..w -> LdeCells]]} :
           w \in 0..MaxSide, h \in 0..MaxSide}

InitLde ==
    /\ FacadeIdle
    /\ zeroNonces = {}
    /\ \E trace \in LdeTraces, blowup_factor \in {1, 4, 16} :
          fnArgs = [fn |-> "compute_lde", trace |-> trace,
                    blowup_factor |-> blowup_factor]
    /\ fnResult = NoResult

Extend ==
    /\ fnArgs.fn = "compute_lde"
    /\ ~fnResult.returned
    /\ fnResult' = [returned |-> TRUE,
                    lde |-> ComputeLde(fnArgs.trace, fnArgs.blowup_factor)]
    /\ UNCHANGED <<facadeVars, fnArgs>>

NextLde == Extend

SpecLde == InitLde /\ [][NextLde]_vars

Extended == fnArgs.fn = "compute_lde" /\ fnResult.returned

\* C24: compute_lde returns a trace of the same width and of height
\* height * blowup_factor in which every row r < height is row r of the source
\* and every cell of a row r >= height is trace[r mod height][c] * F(r+1).
C24_LdeRows ==
    Extended =>
        LET trace == fnArgs.trace
            lde == fnResult.lde
        IN /\ lde.width = trace.width
           /\ lde.height = trace.height * fnArgs.blowup_factor
           /\ Len(lde.data) = lde.height
           /\ \A r \in 0..(lde.height - 1) :
                 /\ Len(lde.data[r + 1]) = lde.width
                 /\ \A c \in 0..(lde.width - 1) :
                       lde.data[r + 1][c + 1] =
                           IF r < trace.height THEN trace.data[r + 1][c + 1]
                           ELSE Residue(Product(
                                    trace.data[(r % trace.height) + 1][c + 1],
                                    (r + 1) % BABY_BEAR_MODULUS))

\* a 2 by 2 trace was extended 16 times; row 31 holds row 1 times 32
C24_Witness ==
    /\ Extended /\ fnArgs.blowup_factor = 16
    /\ fnArgs.trace.data = <<<<2, 2>>, <<BABY_BEAR_MODULUS - 1, 2>>>>
    /\ fnResult.lde.height = 32
    /\ fnResult.lde.data[2] = <<BABY_BEAR_MODULUS - 1, 2>>
    /\ fnResult.lde.data[32] = <<BABY_BEAR_MODULUS - 32, 64>>

----------------------------------------------------------------------------
(* ExecutionTrace: new followed by a sequence of set calls.                 *)

MaxSets == 2

\* (width, height) of the traces, and the rows, columns and values of the
\* set calls: every index is out of bounds for some shape
Shapes == {<<0, 0>>, <<1, 2>>, <<2, 1>>, <<2, 2>>}
SetIndices == 0..2
SetValues == {0, 7}

NeverSet == [set |-> FALSE]

InitCells ==
    /\ FacadeIdle
    /\ zeroNonces = {}
    /\ \E shape \in Shapes :
          fnArgs = [fn |-> "ExecutionTrace", width |-> shape[1],
                    height |-> shape[2]]
    /\ fnResult = NoResult

\* ExecutionTrace::new; written remembers the last set at each pair of
\* indices, before is the trace before the last call, last is that call
New ==
    /\ fnArgs.fn = "ExecutionTrace"
    /\ ~fnResult.returned
    /\ LET trace == TraceNew(fnArgs.width, fnArgs.height)
       IN fnResult' = [returned |-> TRUE, trace |-> trace, before |-> trace,
                       last |-> [op |-> "new"], sets |-> 0,
                       written |-> [rc \in SetIndices \X SetIndices |-> NeverSet]]
    /\ UNCHANGED <<facadeVars, fnArgs>>

\* ExecutionTrace::set
Set ==
    /\ fnArgs.fn = "ExecutionTrace"
    /\ fnResult.returned /\ fnResult.sets < MaxSets
    /\ \E row \in SetIndices, col \in SetIndices, value \in SetValues :
          fnResult' =
              [returned |-> TRUE,
               trace |-> TraceSet(fnResult.trace, row, col, value),
               before |-> fnResult.trace,
               last |-> [op |-> "set", row |-> row, col |-> col,
                         value |-> value],
               sets |-> fnResult.sets + 1,
               written |-> [fnResult.written EXCEPT ![<<row, col>>] =
                               [set |-> TRUE, value |-> value]]]
    /\ UNCHANGED <<facadeVars, fnArgs>>

NextCells == New \/ Set

SpecCells == InitCells /\ [][NextCells]_vars

TraceMade == fnArgs.fn = "ExecutionTrace" /\ fnResult.returned

\* C25: after new(w, h) and any sequence of set calls, get(r, c) with r < h
\* and c < w returns the value of the most recent set at (r, c), or zero if
\* there was none; get with r >= h or c >= w returns zero; and a set with
\* r >= h or c >= w leaves every cell, the width and the height unchanged.
C25_SetGet ==
    TraceMade =>
        LET trace == fnResult.trace
            w == fnArgs.width
            h == fnArgs.height
        IN /\ trace.width = w /\ trace.height = h
           /\ \A r \in SetIndices, c \in SetIndices :
                 TraceGet(trace, r, c) =
                     IF r < h /\ c < w /\ fnResult.written[<<r, c>>].set
                     THEN fnResult.written[<<r, c>>].value
                     ELSE 0
           /\ (fnResult.last.op = "set"
                  /\ (fnResult.last.row >= h \/ fnResult.last.col >= w))
                 => trace = fnResult.before

\* in a 2 by 1 trace, (0, 1) was set to 7 and then a set at row 1, out of
\* bounds, left the trace as it was: get(0, 1) is 7 and get(1, 1) is 0
C25_Witness ==
    /\ TraceMade /\ fnArgs.width = 2 /\ fnArgs.height = 1
    /\ fnResult.last = [op |-> "set", row |-> 1, col |-> 1, value |-> 7]
    /\ fnResult.written[<<0, 1>>] = [set |-> TRUE, value |-> 7]
    /\ TraceGet(fnResult.trace, 0, 1) = 7
    /\ TraceGet(fnResult.trace, 1, 1) = 0

----------------------------------------------------------------------------
(* One proving call of the CustomStarkProver, statement by statement.       *)

\* a variant of the statement order that computes the LDE before the trace
\* commitment
ProveSteps_LdeFirst ==
    <<"trace", "constraints", "lde", "trace_commit", "lde_commit", "fri",
      "pow", "queries">>

\* the statements of prove_threshold_verification and of
\* prove_biometric_verification in program order, those of generate_fri_proof
\* (folding with the final polynomial, then the PoW loop) in the place of its
\* call
ProveSteps ==
    <<"trace", "constraints", "trace_commit", "lde", "lde_commit", "fri",
      "pow", "queries">>

\* the values each statement is passed, named by the statement that produced
\* them (the PoW loop reads none; the queries are passed the whole FriProof)
StepInputs ==
    [trace |-> {}, constraints |-> {"trace"}, trace_commit |-> {"trace"},
     lde |-> {"trace"}, lde_commit |-> {"lde"},
     fri |-> {"lde", "constraints"}, pow |-> {},
     queries |-> {"trace", "lde", "fri", "pow"}]

StepCalls ==
    {[op |-> "prove_threshold", call |-> c] : c \in ThresholdCalls}
        \cup {[op |-> "prove_biometric", call |-> c] : c \in BiometricCalls}

InitSteps ==
    /\ FacadeIdle
    /\ zeroNonces \in PoWWorlds
    /\ \E sc \in StepCalls, level \in SecurityLevels :
       \E checks \in IF sc.op = "prove_threshold" /\ Overflows(sc.call)
                     THEN BOOLEAN ELSE {FALSE} :
          /\ sc.op = "prove_threshold" => DecayExact(sc.call, clock)
          /\ fnArgs = [fn |-> sc.op, call |-> sc.call, checks |-> checks,
                       prover |-> ProverNew(LevelParams(level)[1],
                                            LevelParams(level)[2])]
    /\ fnResult = [returned |-> FALSE, status |-> "running", done |-> <<>>,
                   vals |-> [s \in {} |-> 0]]

\* the statement that runs next
AtStep(step) ==
    /\ fnArgs.fn \in {"prove_threshold", "prove_biometric"}
    /\ fnResult.status = "running"
    /\ Len(fnResult.done) < Len(ProveSteps)
    /\ ProveSteps[Len(fnResult.done) + 1] = step
    /\ StepInputs[step] \subseteq DOMAIN fnResult.vals

\* the statement completed with value v
Done(step, v) ==
    /\ fnResult' = [fnResult EXCEPT
                       !.done = Append(@, step),
                       !.vals = [s \in DOMAIN @ \cup {step} |->
                                    IF s = step THEN v ELSE @[s]]]
    /\ UNCHANGED <<facadeVars, fnArgs>>

\* the call ended without a proof
Ended(status) ==
    /\ fnResult' = [fnResult EXCEPT !.status = status, !.returned = TRUE]
    /\ UNCHANGED <<facadeVars, fnArgs>>

StepTrace ==
    /\ AtStep("trace")
    /\ IF fnArgs.fn = "prove_biometric"
       THEN Done("trace", CreateBiometricTrace(fnArgs.call.challenge,
                                               fnArgs.call.hash,
                                               fnArgs.call.factors))
       ELSE LET req == fnArgs.call.request
                built == CreateThresholdTrace(fnArgs.call.user_scores,
                                              req.threshold, req.time_window,
                                              req.decay_params, clock,
                                              fnArgs.checks)
            IN IF built.panic THEN Ended("panic")
               ELSE Done("trace", built.trace)

StepConstraints ==
    /\ AtStep("constraints")
    /\ Done("constraints",
            IF fnArgs.fn = "prove_biometric"
            THEN GenerateBiometricConstraints(fnResult.vals.trace,
                                              fnArgs.call.challenge)
            ELSE GenerateThresholdConstraints(fnResult.vals.trace,
                                              fnArgs.call.request.threshold,
                                              fnArgs.call.request.time_window))

StepTraceCommit ==
    /\ AtStep("trace_commit")
    /\ Done("trace_commit", CommitToTrace(fnResult.vals.trace))

StepLde ==
    /\ AtStep("lde")
    /\ Done("lde", ComputeLde(fnResult.vals.trace, fnArgs.prover.blowup_factor))

StepLdeCommit ==
    /\ AtStep("lde_commit")
    /\ Done("lde_commit", CommitToLde(fnResult.vals.lde))

\* generate_fri_proof: the folding rounds and the final polynomial
StepFri ==
    /\ AtStep("fri")
    /\ LET rounds == FriRounds(fnResult.vals.lde.height)
       IN Done("fri", [commitments |-> rounds.commitments,
                       final_poly |->
                           [i \in 1..Min(rounds.size, 8) |-> FieldONE]])

\* generate_fri_proof: the PoW loop
StepPoW ==
    /\ AtStep("pow")
    /\ IF GrindPoW.found THEN Done("pow", GrindPoW.pow_nonce)
       ELSE Ended("err")

StepQueries ==
    /\ AtStep("queries")
    /\ Done("queries", GenerateQueries(fnArgs.prover.rng,
                                       fnArgs.prover.num_queries,
                                       fnResult.vals.lde))

\* Ok(StarkProof { .. })
StepReturn ==
    /\ fnArgs.fn \in {"prove_threshold", "prove_biometric"}
    /\ fnResult.status = "running"
    /\ Len(fnResult.done) = Len(ProveSteps)
    /\ Ended("ok")

NextSteps ==
    \/ StepTrace \/ StepConstraints \/ StepTraceCommit \/ StepLde
    \/ StepLdeCommit \/ StepFri \/ StepPoW \/ StepQueries \/ StepReturn

SpecSteps == InitSteps /\ [][NextSteps]_vars

Proving == fnArgs.fn \in {"prove_threshold", "prove_biometric"}

\* the steps of s that are in the sequence order, in the order of s
Among(s, order) ==
    SelectSeq(s, LAMBDA x : \E i \in 1..Len(order) : order[i] = x)

IsPrefix(a, b) == Len(a) <= Len(b) /\ a = SubSeq(b, 1, Len(a))

\* every step read only values produced by steps completed before it
ReadsEarlier ==
    \A i \in 1..Len(fnResult.done) :
        StepInputs[fnResult.done[i]]
            \subseteq {fnResult.done[j] : j \in 1..(i - 1)}

\* C26 (as the spec states it): within one proving call the steps complete in
\* the strict order trace, LDE, trace commitment, LDE commitment, FRI
\* commitments, PoW, queries, each reading only outputs of earlier steps.
C26_StepOrderLdeFirst ==
    Proving =>
        LET order == <<"trace", "lde", "trace_commit", "lde_commit", "fri",
                       "pow", "queries">>
        IN /\ IsPrefix(Among(fnResult.done, order), order)
           /\ ReadsEarlier

\* C26 (amended): within one proving call the steps complete in the strict
\* order trace, constraints, trace commitment, LDE, LDE commitment, FRI
\* commitments, PoW, queries, each reading only outputs of earlier steps.
C26_StepOrderCommitFirst ==
    Proving =>
        LET order == <<"trace", "constraints", "trace_commit", "lde",
                       "lde_commit", "fri", "pow", "queries">>
        IN /\ IsPrefix(fnResult.done, order)
           /\ ReadsEarlier

\* a call returned a proof after all eight steps
C26_Witness ==
    /\ Proving /\ fnResult.status = "ok"
    /\ Len(fnResult.done) = 8
    /\ fnResult.done[3] = "trace_commit" /\ fnResult.done[4] = "lde"
    /\ fnResult.done[8] = "queries"

----------------------------------------------------------------------------
(* verify_proof applied on its own to a proof and to the same proof with    *)
(* some of its fields replaced.                                             *)

\* the fields the replacement may touch
Replaceable ==
    {"trace_root", "lde_root", "final_poly", "commitments", "position",
     "value", "auth_path"}

\* a StarkProof with n equal queries, c commitments and its other parts
\* taken from the variety v (1 or 2) for the fields in touched, 1 elsewhere
ProofWith(n, c, pow_nonce, public_inputs, v, touched) ==
    LET pick(f, one, two) == IF v = 2 /\ f \in touched THEN two ELSE one
        query ==
            [position |-> pick("position", 0, 7),
             value |-> pick("value", 5, BABY_BEAR_MODULUS - 1),
             auth_path |-> pick("auth_path", <<Blake3(<<1>>), Blake3(<<2>>)>>,
                                <<>>)]
    IN [trace_root |-> pick("trace_root", Blake3(<<10>>), Blake3(<<11>>)),
        lde_root |-> pick("lde_root", Blake3(<<20>>), Blake3(<<21>>)),
        fri_proof |->
            [commitments |-> [i \in 1..c |->
                                 pick("commitments", Blake3(<<30>>),
                                      Blake3(<<31>>))],
             final_poly |-> pick("final_poly", <<1, 1>>, <<>>),
             pow_nonce |-> pow_nonce],
        queries |-> [i \in 1..n |-> query],
        public_inputs |-> public_inputs]

VerifyTags == {"threshold_verification", "biometric_4fa", "custom"}

VerifyPublicInputs ==
    {<<>>, <<100>>, <<0>>, <<100, 86400>>, <<2000, 86400>>, <<100, 0>>,
     <<BABY_BEAR_MODULUS, 1>>}

InitVerify ==
    /\ FacadeIdle
    /\ zeroNonces = {3, 5}
    /\ \E n \in {0, 39, 40}, c \in {0, 1}, pow_nonce \in {3, 4},
          public_inputs \in VerifyPublicInputs, tag \in VerifyTags,
          touched \in {{f} : f \in Replaceable} \cup {Replaceable} :
          fnArgs = [fn |-> "verify_proof", tag |-> tag,
                    system |-> SystemNew("Fast"),
                    first |-> ProofWith(n, c, pow_nonce, public_inputs, 1,
                                        touched),
                    second |-> ProofWith(n, c, pow_nonce, public_inputs, 2,
                                         touched)]
    /\ fnResult = NoResult

\* the RepIDProof that carries the StarkProof p under the tag
Carried32(p, tag) ==
    [present |-> TRUE, proof_data |-> Serialize(p),
     public_inputs |-> p.public_inputs,
     metadata |-> [operation_type |-> tag]]

\* verify_proof of the verifier and of the facade, on both proofs
VerifyBoth ==
    /\ fnArgs.fn = "verify_proof"
    /\ ~fnResult.returned
    /\ LET verify(p) ==
               [stark |-> StarkVerifyProof(fnArgs.system.verifier, p,
                                           fnArgs.tag),
                facade |-> FacadeVerifyProof(fnArgs.system,
                                             Carried32(p, fnArgs.tag))]
       IN fnResult' = [returned |-> TRUE, first |-> verify(fnArgs.first),
                       second |-> verify(fnArgs.second)]
    /\ UNCHANGED <<facadeVars, fnArgs>>

NextVerify == VerifyBoth

SpecVerify == InitVerify /\ [][NextVerify]_vars

Verified == fnArgs.fn = "verify_proof" /\ fnResult.returned

\* C27: the result of verify_proof depends only on queries.len(), pow_nonce,
\* whether commitments is empty, public_inputs and the tag: replacing
\* trace_root, lde_root, final_poly, the commitment digests, or the position,
\* value or auth_path of the queries leaves the result unchanged.
C27_VerdictIgnoresContent ==
    Verified =>
        /\ fnResult.first.stark = fnResult.second.stark
        /\ fnResult.first.facade = fnResult.second.facade
        /\ fnResult.first.facade = fnResult.first.stark

\* every replaceable field of an accepted threshold proof was replaced and
\* the proof was accepted again
C27_Witness ==
    /\ Verified /\ fnArgs.tag = "threshold_verification"
    /\ Len(fnArgs.first.queries) = 40
    /\ fnArgs.first.trace_root # fnArgs.second.trace_root
    /\ fnArgs.first.lde_root # fnArgs.second.lde_root
    /\ fnArgs.first.fri_proof.final_poly # fnArgs.second.fri_proof.final_poly
    /\ fnArgs.first.fri_proof.commitments # fnArgs.second.fri_proof.commitments
    /\ fnArgs.first.queries[1].position # fnArgs.second.queries[1].position
    /\ fnArgs.first.queries[1].value # fnArgs.second.queries[1].value
    /\ fnArgs.first.queries[1].auth_path # fnArgs.second.queries[1].auth_path
    /\ fnResult.first.stark = Ok(TRUE)
    /\ fnResult.second.facade = Ok(TRUE)

----------------------------------------------------------------------------
(* The facade's answer against the trace of the proof it returns            *)

ThresholdReturned == out.op = "prove_threshold" /\ out.status = "ok"

\* the meets_threshold flag of the trace the returned proof commits to
FlagOfTrace == TraceGet(TraceOfCall, 0, TraceOfCall.width - 2)

\* C28: the meets_threshold boolean the facade returns agrees with the
\* meets_threshold flag (column w-2) of the trace the returned proof commits
\* to.
C28_FacadeAgreesWithTrace ==
    ThresholdReturned => (out.meets_threshold <=> FlagOfTrace = FieldONE)

----------------------------------------------------------------------------
(* Proofs verified under a tag the verifier does not know                   *)

KnownTags == {"threshold_verification", "biometric_4fa"}

\* verify_proof has answered on a proof that parses and carries another tag
VerifiedUnknownTag == out.op = "verify" /\ Parsed.ok /\ Tag \notin KnownTags

\* C29: under a tag other than "threshold_verification" and "biometric_4fa"
\* verify_proof returns true whenever the generic checks pass (query count,
\* PoW, a commitment, public inputs below p), whatever the number and the
\* values of the public inputs; so a threshold proof that was rejected for
\* its out-of-range threshold is accepted once its metadata.operation_type is
\* changed to another string.
C29_UnknownTagAccepted ==
    VerifiedUnknownTag =>
        /\ out.verdict = Ok(C3_GenericChecks(Parsed.proof))
        /\ (/\ out.altered /\ out.alteration.kind = "operation_type"
            /\ ~out.was_accepted
            /\ C3_GenericChecks(Parsed.proof)) => out.verdict = Ok(TRUE)

\* the proof for threshold 2000 was rejected, its operation_type was changed
\* to "custom", and it was accepted
C29_Witness ==
    /\ VerifiedUnknownTag
    /\ out.altered /\ out.alteration.kind = "operation_type"
    /\ ~out.was_accepted
    /\ Parsed.proof.public_inputs[1] = 2000
    /\ out.verdict = Ok(TRUE)

----------------------------------------------------------------------------
(* Sequences of proving calls on one prover                                 *)

\* the number of proving calls made on the prover
MaxCalls == 3

SeqThresholdCalls ==
    {Call(Request(U32(100), TechGov, 86400, NoDecay), Scores1)}

SeqBiometricCalls == {c \in BiometricCalls : c.challenge = Bytes32(1)}

InitSeq ==
    /\ zeroNonces \in PoWWorlds
    /\ clock = Clock0
    /\ \E level \in SecurityLevels : sys = SystemNew(level)
    /\ flight = NoProof
    /\ tampered = FALSE
    /\ out = [op |-> "none"]
    /\ accepted = FALSE
    /\ runs = <<>>
    /\ fnArgs = NoArgs
    /\ fnResult = NoResult

\* the prover keeps the state the call left and the call is recorded with
\* the position of the generator before and after it
Recorded(op, call, proved) ==
    /\ sys' = [sys EXCEPT !.prover = proved.prover]
    /\ runs' = Append(runs, [op |-> op, call |-> call,
                             before |-> sys.prover.rng.drawn,
                             after |-> proved.prover.rng.drawn,
                             status |-> proved.status,
                             proof |-> IF proved.status = "ok"
                                       THEN proved.proof ELSE <<>>])
    /\ out' = [op |-> op]
    /\ UNCHANGED <<zeroNonces, clock, flight, tampered, accepted, fnArgs,
                   fnResult>>

\* CustomStarkProver::prove_biometric_verification on the prover
SeqProveBiometric ==
    /\ Len(runs) < MaxCalls
    /\ \E call \in SeqBiometricCalls :
          Recorded("prove_biometric", call,
                   StarkProveBiometric(sys.prover, call.challenge, call.hash,
                                       call.factors))

\* CustomStarkProver::prove_threshold_verification on the prover
SeqProveThreshold ==
    /\ Len(runs) < MaxCalls
    /\ \E call \in SeqThresholdCalls :
          Recorded("prove_threshold", call,
                   StarkProveThreshold(sys.prover, call.user_scores,
                                       call.request.threshold,
                                       call.request.time_window,
                                       call.request.decay_params, clock,
                                       FALSE))

NextSeq == SeqProveBiometric \/ SeqProveThreshold

SpecSeq == InitSeq /\ [][NextSeq]_vars

\* the number of proofs among the first n calls
RECURSIVE ProofsBefore(_)
ProofsBefore(n) ==
    IF n = 0 THEN 0
    ELSE ProofsBefore(n - 1) + (IF runs[n].status = "ok" THEN 1 ELSE 0)

\* the proof of the same biometric call by a prover that has proved nothing
FreshProof(call) ==
    StarkProveBiometric(ProverNew(sys.prover.num_queries,
                                  sys.prover.blowup_factor),
                        call.challenge, call.hash, call.factors).proof

\* C30: the generator is advanced only by query generation: a successful
\* call draws exactly num_queries values and a call that fails with the PoW
\* timeout draws none; trace_root, lde_root, fri_proof and public_inputs of a
\* biometric proof depend only on the call's inputs, and the queries only on
\* the inputs and on the number of proofs the prover produced before.
C30_RngOnlyInQueries ==
    /\ sys.prover.rng.drawn = ProofsBefore(Len(runs)) * sys.prover.num_queries
    /\ \A i \in 1..Len(runs) :
          LET r == runs[i]
          IN /\ r.before = ProofsBefore(i - 1) * sys.prover.num_queries
             /\ r.status = "ok" => r.after = r.before + sys.prover.num_queries
             /\ r.status # "ok" =>
                   /\ r.after = r.before
                   /\ r.status = "err" /\ zeroNonces = {}
             /\ (r.status = "ok" /\ r.op = "prove_biometric") =>
                   LET fresh == FreshProof(r.call)
                       lde == ComputeLde(CreateBiometricTrace(
                                             r.call.challenge, r.call.hash,
                                             r.call.factors),
                                         sys.prover.blowup_factor)
                   IN /\ r.proof.trace_root = fresh.trace_root
                      /\ r.proof.lde_root = fresh.lde_root
                      /\ r.proof.fri_proof = fresh.fri_proof
                      /\ r.proof.public_inputs = fresh.public_inputs
                      /\ r.proof.queries =
                            GenerateQueries([seed |-> RngSeed,
                                             drawn |-> r.before],
                                            sys.prover.num_queries, lde)

\* after a threshold proof the same biometric call was proved twice: the two
\* proofs differ in their queries and in nothing else
C30_Witness ==
    /\ Len(runs) = 3
    /\ \A i \in 1..3 : runs[i].status = "ok"
    /\ runs[1].op = "prove_threshold"
    /\ runs[2].op = "prove_biometric" /\ runs[3].op = "prove_biometric"
    /\ runs[2].call = runs[3].call
    /\ runs[2].proof.queries # runs[3].proof.queries
    /\ [runs[2].proof EXCEPT !.queries = <<>>]
          = [runs[3].proof EXCEPT !.queries = <<>>]
    /\ sys.prover.rng.drawn = 3 * sys.prover.num_queries

\* a call failed with the PoW timeout and left the generator where it was
C30_TimeoutDrawsNone ==
    /\ Len(runs) >= 1 /\ runs[1].status = "err"
    /\ runs[1].after = 0

====
